---- MODULE Spec2Model ----
(***************************************************************************)
(* Federation layer of the homeserver (src/src/api/server_server.rs):      *)
(* transaction ingestion, join acceptance, signing-key fetching, the       *)
(* auth-chain resolver and the signed request dispatcher; and the tasks of *)
(* the admin service that lock the admin room (src/src/service/admin.rs).  *)
(*                                                                         *)
(* Each subsystem has its own specification over the shared variables:     *)
(*   Spec          one inbound transaction, PDU loop and EDU dispatch      *)
(*   SpecEdus      one inbound transaction of few PDUs, EDU dispatch       *)
(*   SpecAdmit     concurrent send_transaction / send_join requests        *)
(*   SpecKeys      concurrent fetch_signing_keys calls, one per caller     *)
(*   SpecKeysSeq   repeated fetch_signing_keys calls while time passes     *)
(*   SpecChainCold one get_auth_chain call on an empty cache, any store    *)
(*   SpecChain     successive get_auth_chain calls over acyclic stores     *)
(*   SpecSend      concurrent send_request calls                           *)
(*   SpecBackoff   the backoff windows of the two ledgers                  *)
(*   SpecKeysAll   fetch_signing_keys calls beside fetch_join_signing_keys *)
(*   SpecResolve   find_actual_destination, call after call                *)
(*   SpecBuckets   one get_auth_chain call, any short id table             *)
(*   SpecLocks     a transaction or join beside two make_join requests     *)
(*   SpecSendJoin  two send_join requests, room state and outbound queue   *)
(*   SpecInvite    invite requests, one after the other                    *)
(*   SpecDisabled  a request to each entry point, federation switched off  *)
(*   SpecJoinKeys  fetch_join_signing_keys with two trusted servers        *)
(*   SpecSendJoinFair  SpecSendJoin with every request running to its end   *)
(*   SpecD2D       a transaction with a device message, sent again         *)
(*   SpecWalk      one get_auth_chain_inner call, iteration by iteration   *)
(*   SpecMissing   one get_missing_events request, iteration by iteration  *)
(*   SpecEventReads  requests to the routes that return events of a room   *)
(*   SpecCachePass the cache pass of fetch_join_signing_keys               *)
(*   SpecChainGrow get_auth_chain calls while events are admitted          *)
(*   SpecAdminLocks  the admin service beside make_join and a transaction  *)
(***************************************************************************)
EXTENDS Integers, Sequences, FiniteSets, TLC

(***************************************************************************)
(* Bounds of the model.                                                    *)
(***************************************************************************)
MaxPdus == 2        \* PDUs of the transaction of Spec
MaxEdus == 2        \* EDUs of the transaction of Spec
NumCalls == 2       \* concurrent requests of SpecAdmit
MaxAdmitPdus == 1   \* PDUs per transaction in SpecAdmit
NumKeyCalls == 2    \* concurrent fetch_signing_keys calls
NumSendCalls == 2   \* concurrent send_request calls
MaxTries == 3       \* no further call is made once a ledger entry counts MaxTries attempts
MaxTicks == 2       \* the clock stops after MaxTicks steps of 30 seconds
MaxAttempts == 60   \* failures counted by one backoff ledger entry

Calls == 1 .. NumCalls
NoCall == 0

(***************************************************************************)
(* Names.  A transaction is authenticated as coming from one server; room  *)
(* "!acl" carries an m.room.server_acl event that denies evil.example,     *)
(* room "!open" has no ACL event.                                          *)
(***************************************************************************)
Servers == {"good.example", "evil.example"}
Rooms == {"!acl", "!open"}
NoRoom == "invalid"

EduUsers == {"@a:good.example", "@b:evil.example"}
Devices == {"d1", "d2"}
D2DKeys == {<<"@a:good.example", "m1">>, <<"@a:good.example", "m2">>}
ReceiptIds == {"$e1", "$e2", "$unknown"}

VARIABLES
    allow_federation,           \* globals.allow_federation(), fixed by the configuration
    pc,                         \* per request: position in its handler
    req,                        \* per request: kind, authenticated sender, room (send_join)
    pdu_seen,                   \* per transaction: for each PDU taken from body.pdus, whether it converted
    cur_room,                   \* per request: room of the PDU being admitted
    resolved_map,               \* per transaction: event id -> result
    edu_count,                  \* per transaction: EDUs taken from body.edus
    cur_edu,                    \* per transaction: the DirectToDevice EDU being fanned out
    cur_msg,                    \* per transaction: messages of cur_edu handled so far
    response,                   \* per request: what the route returned
    roomid_mutex_federation,    \* globals.roomid_mutex_federation: room -> holder
    transaction_ids,            \* services().transaction_ids: recorded (sender, message id)
    to_device,                  \* to-device events queued per (sender, message id) and device
    typing,                     \* users shown as typing
    device_list_changed,        \* users marked by mark_device_key_update
    cross_signing_keys,         \* users whose cross-signing keys were set
    read_receipt,               \* event id of the stored read receipt
    d2d_done,                   \* history: (sender, message id) of DirectToDevice EDUs that completed
    d2d_skipped                 \* history: (sender, message id) of DirectToDevice EDUs that were skipped

ingestVars == <<allow_federation, pc, req, pdu_seen, cur_room, resolved_map, edu_count,
                cur_edu, cur_msg, response, roomid_mutex_federation, transaction_ids,
                to_device, typing, device_list_changed, cross_signing_keys, read_receipt,
                d2d_done, d2d_skipped>>

VARIABLES
    fk_pc,                      \* per call: position in fetch_signing_keys
    fk_origin,                  \* per call: the server whose keys are wanted
    fk_ids,                     \* per call: signature_ids
    fk_result,                  \* per call: `result`, the key ids collected so far
    fk_sem,                     \* per call: the semaphore the call cloned a reference to
    fk_permit,                  \* per call: the call holds the permit of fk_sem
    fk_notary,                  \* per call: index in trusted_servers of the notary being asked
    fk_response,                \* per call: what the function returned
    servername_ratelimiter,     \* globals.servername_ratelimiter: server -> semaphore
    sem_permits,                \* permits available in each semaphore created so far
    bad_signature_ratelimiter,  \* globals.bad_signature_ratelimiter: id set -> (time, tries)
    signing_keys,               \* key store: server -> key ids stored for it
    now                         \* the clock (Instant::now()), in seconds

keysVars == <<fk_pc, fk_origin, fk_ids, fk_result, fk_sem, fk_permit, fk_notary, fk_response,
              servername_ratelimiter, sem_permits, bad_signature_ratelimiter, signing_keys, now>>

VARIABLES
    pdus,                       \* the event store: event id -> (room_id, auth_events)
    auth_chain_cache,           \* the auth-chain cache: list of short ids -> set of short ids
    chain_call,                 \* the last get_auth_chain call: its arguments and what it returned
    shorteventid                \* the short event id table: event id -> short id

chainVars == <<pdus, auth_chain_cache, chain_call, shorteventid>>

VARIABLES
    sr_pc,                      \* per call: position in send_request
    sr_destination,             \* per call: `destination`, the server name
    sr_actual,                  \* per call: (actual_destination, host)
    write_destination_to_cache, \* per call: the local flag of that name
    sr_response,                \* per call: what the function returned
    actual_destination_cache,   \* globals.actual_destination_cache
    sr_verified,                \* history: (server, (destination, host)) pairs that got 200 and a decodable body
    sr_executed                 \* history, per call: federation_client().execute(..) calls

sendVars == <<sr_pc, sr_destination, sr_actual, write_destination_to_cache, sr_response,
              actual_destination_cache, sr_verified, sr_executed>>

VARIABLES
    sig_tries,                  \* attempts counted by one bad_signature_ratelimiter entry
    sig_window,                 \* min_elapsed_duration computed from it, and from the count before
    ev_tries,                   \* attempts counted by one bad_event_ratelimiter entry
    ev_window                   \* min_elapsed_duration computed from it, and from the count before

backoffVars == <<sig_tries, sig_window, ev_tries, ev_window>>

VARIABLES
    fj                          \* the fetch_join_signing_keys call: its position, the map
                                \* `servers`, the notary asked, the direct queries pending

VARIABLES
    fd,                         \* the find_actual_destination call: its position, its locals,
                                \* the requests it made, the pair it returned
    tls_name_override           \* globals.tls_name_override: name -> (IPs, port)

VARIABLES
    mj,                         \* per make_join request: position, room, outcome of the
                                \* checks under the lock, template built, response
    roomid_mutex_state          \* globals.roomid_mutex_state: room -> holder

mjVars == <<mj, roomid_mutex_state>>

VARIABLES
    inv,                        \* the last invite request and its response
    invite_membership           \* rooms for which update_membership recorded an invite

inviteVars == <<inv, invite_membership>>

VARIABLES
    sj,                         \* per send_join request: position, join event, state hash
                                \* read, whether admission accepted, state returned, response
    room_states,                \* the states of the room, by short state hash; the last is current
    outbound                    \* sending.send_pdu calls: request, pdu, servers

sjVars == <<sj, room_states, outbound>>

VARIABLES
    ro                          \* the last request to one of the routes that only read: route,
                                \* whether it went on to read, response

VARIABLES
    walk                        \* the get_auth_chain_inner call in progress: its arguments, `todo`,
                                \* `found`, how often each event was taken from `todo`, the result

VARIABLES
    gm                          \* the get_missing_events request in progress: the stored events it
                                \* finds, its arguments, `queued_events`, `i`, `events`, the response

VARIABLES
    rd                          \* the last request for events of a room: route, sender, the room
                                \* named, the response and the room whose events were returned

VARIABLES
    cp                          \* the cache pass of fetch_join_signing_keys: the events of the
                                \* response, the stored keys, the events done, `servers`, `pkm`

VARIABLES
    ad                          \* the tasks of the admin service that lock the admin room: their
                                \* positions, the holder of the write guard of roomid_mutex_state,
                                \* the command of the handler

restVars == <<walk, gm, rd, cp, ad>>

\* the variables an action of one subsystem leaves alone; allow_federation is never written
notIngest == <<keysVars, chainVars, sendVars, backoffVars, fj, fd, tls_name_override,
               mjVars, inviteVars, sjVars, ro, restVars>>
notKeys == <<ingestVars, chainVars, sendVars, backoffVars, fj, fd, tls_name_override,
             mjVars, inviteVars, sjVars, ro, restVars>>
notChain == <<ingestVars, keysVars, sendVars, backoffVars, fj, fd, tls_name_override,
              mjVars, inviteVars, sjVars, ro, restVars>>
notSend == <<ingestVars, keysVars, chainVars, backoffVars, fj, fd, tls_name_override,
             mjVars, inviteVars, sjVars, ro, restVars>>
notBackoff == <<ingestVars, keysVars, chainVars, sendVars, fj, fd, tls_name_override,
                mjVars, inviteVars, sjVars, ro, restVars>>
notRoutes == <<ingestVars, keysVars, chainVars, sendVars, backoffVars, fj, fd, tls_name_override,
               ro, restVars>>
notJoin == <<ingestVars, chainVars, sendVars, backoffVars, fk_pc, fk_origin, fk_ids, fk_result,
             fk_sem, fk_permit, fk_notary, fk_response, servername_ratelimiter, sem_permits,
             bad_signature_ratelimiter, now, fd, tls_name_override, mjVars, inviteVars, sjVars, ro,
                restVars>>
notResolve == <<ingestVars, keysVars, chainVars, sendVars, backoffVars, fj,
                mjVars, inviteVars, sjVars, ro, restVars>>

(***************************************************************************)
(* Maps with an explicit key set (BTreeMap / HashMap).                     *)
(***************************************************************************)
EmptyMap == [k \in {} |-> "none"]

MapInsert(m, k, v) == [x \in (DOMAIN m) \cup {k} |-> IF x = k THEN v ELSE m[x]]

(***************************************************************************)
(* acl_check: no ACL event, or one whose content does not parse, allows    *)
(* every server; otherwise the content decides.                            *)
(***************************************************************************)
RoomServerAcl(room) ==
    IF room = "!acl" THEN [present |-> TRUE, parses |-> TRUE, deny |-> {"evil.example"}]
    ELSE IF room = "!badacl" THEN [present |-> TRUE, parses |-> FALSE, deny |-> {"evil.example"}]
    ELSE [present |-> FALSE, parses |-> FALSE, deny |-> {}]

\* mutant: content that does not parse denies the servers it names
acl_check_StrictParse(server_name, room) ==
    LET acl == RoomServerAcl(room) IN
    IF ~acl.present THEN TRUE
    ELSE server_name \notin acl.deny

acl_check(server_name, room) ==
    LET acl == RoomServerAcl(room) IN
    IF ~acl.present THEN TRUE
    ELSE IF ~acl.parses THEN TRUE
    ELSE server_name \notin acl.deny

(***************************************************************************)
(* Inputs of a transaction.                                                *)
(***************************************************************************)
PduInputs ==
    {[canon |-> FALSE, room |-> NoRoom]}
        \cup {[canon |-> TRUE, room |-> r] : r \in Rooms \cup {NoRoom}}

AdmitPduInputs == {[canon |-> TRUE, room |-> r] : r \in Rooms}

NoEdu == [kind |-> "none", user |-> "", ids |-> {}, flag |-> FALSE,
          key |-> <<"", "">>, msgs |-> <<>>]

Edu(kind, user, ids, flag) == [NoEdu EXCEPT !.kind = kind, !.user = user, !.ids = ids, !.flag = flag]

\* messages of one DirectToDevice EDU for the target user, in map order:
\* a named device sorts before AllDevices ("*")
D2DMessages ==
    {<<[dev |-> d, valid |-> v]>> : d \in {"d1", "*"}, v \in BOOLEAN}
        \cup {<<[dev |-> "d1", valid |-> v1], [dev |-> "*", valid |-> v2]>> : v1, v2 \in BOOLEAN}

EduInputs ==
    {Edu(k, "", {}, FALSE) : k \in {"presence", "custom", "unparsed"}}
        \cup {Edu("receipt", "", ids, FALSE) : ids \in SUBSET ReceiptIds}
        \cup {Edu("typing", u, {}, f) : u \in EduUsers, f \in BOOLEAN}
        \cup {Edu("device_list", u, {}, FALSE) : u \in EduUsers}
        \cup {Edu("signing_key", u, {}, f) : u \in EduUsers, f \in BOOLEAN}
        \cup {[NoEdu EXCEPT !.kind = "direct", !.key = k, !.msgs = m] : k \in D2DKeys, m \in D2DMessages}

AdmitEduInputs == {Edu(k, "", {}, FALSE) : k \in {"presence", "custom"}}

(***************************************************************************)
(* External collaborators read by the EDU handlers.                        *)
(***************************************************************************)
\* rooms.get_pdu_count: position of a known event
PduCount(id) == IF id = "$e1" THEN 1 ELSE IF id = "$e2" THEN 2 ELSE 0

KnownIds(ids) == {id \in ids : PduCount(id) > 0}

\* max_by_key over the known ids of the receipt
LatestKnown(ids) == CHOOSE id \in KnownIds(ids) : \A o \in KnownIds(ids) : PduCount(o) <= PduCount(id)

\* rooms.is_joined
IsJoined(user) == user = "@a:good.example"

\* mutant: every user counts as a user of good.example
ServerOf_OneServer(user) == "good.example"

\* user_id.server_name()
ServerOf(user) == IF user = "@a:good.example" THEN "good.example" ELSE "evil.example"

\* users.all_device_ids of the target user
AllDeviceIds == Devices

\* transaction_ids.existing_txnid(sender, None, message_id).is_some()
existing_txnid(ledger, key) == key \in ledger

\* transaction_ids.add_txnid(sender, None, message_id, &[])
add_txnid(ledger, key) == ledger \cup {key}

(***************************************************************************)
(* Initial state of the ingestion variables: no request in progress, empty *)
(* lock registry, empty ledger and stores.                                 *)
(***************************************************************************)
NoReq == [kind |-> "none", sender |-> "", room |-> NoRoom]

IngestInit ==
    /\ pc = [c \in Calls |-> "idle"]
    /\ req = [c \in Calls |-> NoReq]
    /\ pdu_seen = [c \in Calls |-> <<>>]
    /\ cur_room = [c \in Calls |-> NoRoom]
    /\ resolved_map = [c \in Calls |-> EmptyMap]
    /\ edu_count = [c \in Calls |-> 0]
    /\ cur_edu = [c \in Calls |-> NoEdu]
    /\ cur_msg = [c \in Calls |-> 0]
    /\ response = [c \in Calls |-> "none"]
    /\ roomid_mutex_federation = [r \in {} |-> NoCall]
    /\ transaction_ids = {}
    /\ to_device = [k \in D2DKeys, d \in Devices |-> 0]
    /\ typing = {}
    /\ device_list_changed = {}
    /\ cross_signing_keys = {}
    /\ read_receipt = "none"
    /\ d2d_done = {}
    /\ d2d_skipped = {}

eduState == <<transaction_ids, to_device, typing, device_list_changed, cross_signing_keys,
              read_receipt, d2d_done, d2d_skipped>>

(***************************************************************************)
(* The per-room federation mutex registry.                                 *)
(***************************************************************************)
\* mutant: insert(room_id, Mutex::default()) in place of entry(room_id).or_default()
MutexEntry_Reset(reg, room) == MapInsert(reg, room, NoCall)

\* roomid_mutex_federation.write().entry(room_id).or_default()
MutexEntry(reg, room) == IF room \in DOMAIN reg THEN reg ELSE MapInsert(reg, room, NoCall)

\* mutex.lock().await completes only while nobody holds the mutex
MutexFree(reg, room) == room \in DOMAIN reg /\ reg[room] = NoCall

MutexLock(reg, room, c) == [reg EXCEPT ![room] = c]

\* mutant: the guard is never dropped
MutexUnlock_Keeps(reg, room) == reg

\* drop(mutex_lock), also when the guard goes out of scope on an early return
MutexUnlock(reg, room) == [reg EXCEPT ![room] = NoCall]

(***************************************************************************)
(* send_transaction_message_route                                          *)
(***************************************************************************)
\* the route returns Err(e): the `?` operator and the early returns
Abort(c, e) ==
    /\ pc' = [pc EXCEPT ![c] = "done"]
    /\ response' = [response EXCEPT ![c] = e]

\* entry of the route: the configuration check
TxnStart(c, senders) ==
    /\ pc[c] = "idle"
    /\ \E s \in senders :
        req' = [req EXCEPT ![c] = [kind |-> "txn", sender |-> s, room |-> NoRoom]]
    /\ IF allow_federation
       THEN pc' = [pc EXCEPT ![c] = "pdus"] /\ UNCHANGED response
       ELSE Abort(c, "bad_config")
    /\ UNCHANGED <<notIngest, allow_federation, pdu_seen, cur_room, resolved_map, edu_count, cur_edu,
                   cur_msg, roomid_mutex_federation, eduState>>

\* mutant: a PDU that does not convert is given an error entry like one without room id
PduOutcome_MarksMalformed(sender, p) ==
    IF ~p.canon \/ p.room = NoRoom THEN "invalid_room"
    ELSE IF ~acl_check(sender, p.room) THEN "denied"
    ELSE "admit"

\* what one iteration of the PDU loop does with a PDU before it takes the room mutex
PduOutcome(sender, p) ==
    IF ~p.canon THEN "skip"                       \* gen_event_id_canonical_json failed: continue
    ELSE IF p.room = NoRoom THEN "invalid_room"   \* entry "Event needs a valid RoomId.", continue
    ELSE IF ~acl_check(sender, p.room) THEN "denied"   \* acl_check(..)? returns from the route
    ELSE "admit"

\* one iteration of `for pdu in &body.pdus` up to mutex.lock().await;
\* the derived event id of the k-th PDU is written k (PDUs of a transaction are distinct)
TxnPdu(c, inputs, maxPdus) ==
    /\ pc[c] = "pdus"
    /\ Len(pdu_seen[c]) < maxPdus
    /\ \E p \in inputs :
        LET event_id == Len(pdu_seen[c]) + 1
            outcome == PduOutcome(req[c].sender, p)
        IN  /\ pdu_seen' = [pdu_seen EXCEPT ![c] = Append(@, p.canon)]
            /\ CASE outcome = "skip" ->
                      UNCHANGED <<pc, response, resolved_map, cur_room, roomid_mutex_federation>>
                 [] outcome = "invalid_room" ->
                      /\ resolved_map' = [resolved_map EXCEPT
                                            ![c] = MapInsert(@, event_id, "Err: Event needs a valid RoomId.")]
                      /\ UNCHANGED <<pc, response, cur_room, roomid_mutex_federation>>
                 [] outcome = "denied" ->
                      /\ Abort(c, "Forbidden")
                      /\ UNCHANGED <<resolved_map, cur_room, roomid_mutex_federation>>
                 [] outcome = "admit" ->
                      /\ roomid_mutex_federation' = MutexEntry(roomid_mutex_federation, p.room)
                      /\ cur_room' = [cur_room EXCEPT ![c] = p.room]
                      /\ pc' = [pc EXCEPT ![c] = "lock"]
                      /\ UNCHANGED <<response, resolved_map>>
    /\ UNCHANGED <<notIngest, allow_federation, req, edu_count, cur_edu, cur_msg, eduState>>

\* mutex.lock().await returns
TxnLock(c) ==
    /\ pc[c] = "lock"
    /\ MutexFree(roomid_mutex_federation, cur_room[c])
    /\ roomid_mutex_federation' = MutexLock(roomid_mutex_federation, cur_room[c], c)
    /\ pc' = [pc EXCEPT ![c] = "admit"]
    /\ UNCHANGED <<notIngest, allow_federation, req, pdu_seen, cur_room, resolved_map, edu_count, cur_edu,
                   cur_msg, response, eduState>>

\* handle_incoming_pdu(..).await returns; its result is recorded and the guard dropped
TxnAdmit(c) ==
    /\ pc[c] = "admit"
    /\ \E result \in {"Ok", "Err: admission failed"} :
        resolved_map' = [resolved_map EXCEPT ![c] = MapInsert(@, Len(pdu_seen[c]), result)]
    /\ roomid_mutex_federation' = MutexUnlock(roomid_mutex_federation, cur_room[c])
    /\ cur_room' = [cur_room EXCEPT ![c] = NoRoom]
    /\ pc' = [pc EXCEPT ![c] = "pdus"]
    /\ UNCHANGED <<notIngest, allow_federation, req, pdu_seen, edu_count, cur_edu, cur_msg, response,
                   eduState>>

\* body.pdus is exhausted; the loop over resolved_map only logs
TxnPdusEnd(c) ==
    /\ pc[c] = "pdus"
    /\ pc' = [pc EXCEPT ![c] = "edus"]
    /\ UNCHANGED <<notIngest, allow_federation, req, pdu_seen, cur_room, resolved_map, edu_count, cur_edu,
                   cur_msg, response, roomid_mutex_federation, eduState>>

(***************************************************************************)
(* EDU dispatch.  A storage call of a handler may fail (input `fail`); the *)
(* handlers propagate that with `?`.                                       *)
(***************************************************************************)
\* the handler of a Receipt, Typing, DeviceListUpdate or SigningKeyUpdate EDU returns Err
EduFails(edu, sender, fail) ==
    CASE edu.kind = "receipt" -> KnownIds(edu.ids) # {} /\ fail        \* readreceipt_update(..)?
      [] edu.kind = "typing" -> fail                                  \* is_joined(..)?, typing_add/remove(..)?
      [] edu.kind = "device_list" -> fail                             \* mark_device_key_update(..)?
      [] edu.kind = "signing_key" ->                                  \* add_cross_signing_keys(..)?
            ServerOf(edu.user) = sender /\ edu.flag /\ fail
      [] OTHER -> FALSE

\* mutant: the ledger is not consulted
D2DSkipped_Never(ledger, edu) == FALSE

\* a DirectToDevice EDU whose (sender, message id) is in the ledger is skipped: `continue`
D2DSkipped(ledger, edu) == existing_txnid(ledger, edu.key)

\* one iteration of `for edu in body.edus...` for the EDU `edu`
\* (a DirectToDevice EDU: up to the fan-out)
TxnEduWith(c, edu, fail, maxEdus) ==
    /\ pc[c] = "edus"
    /\ edu_count[c] < maxEdus
    /\ edu_count' = [edu_count EXCEPT ![c] = @ + 1]
    /\ IF EduFails(edu, req[c].sender, fail)
       THEN /\ Abort(c, "Err: storage")
            /\ UNCHANGED <<cur_edu, cur_msg, eduState>>
       ELSE
          CASE edu.kind = "receipt" ->
                 /\ read_receipt' = IF KnownIds(edu.ids) # {} THEN LatestKnown(edu.ids)
                                    ELSE read_receipt
                 /\ UNCHANGED <<pc, response, cur_edu, cur_msg, transaction_ids, to_device,
                                typing, device_list_changed, cross_signing_keys, d2d_done,
                                d2d_skipped>>
            [] edu.kind = "typing" ->
                 /\ typing' = IF ~IsJoined(edu.user) THEN typing
                              ELSE IF edu.flag THEN typing \cup {edu.user}
                              ELSE typing \ {edu.user}
                 /\ UNCHANGED <<pc, response, cur_edu, cur_msg, transaction_ids, to_device,
                                device_list_changed, cross_signing_keys, read_receipt, d2d_done,
                                d2d_skipped>>
            [] edu.kind = "device_list" ->
                 /\ device_list_changed' = device_list_changed \cup {edu.user}
                 /\ UNCHANGED <<pc, response, cur_edu, cur_msg, transaction_ids, to_device,
                                typing, cross_signing_keys, read_receipt, d2d_done, d2d_skipped>>
            [] edu.kind = "signing_key" ->
                 /\ cross_signing_keys' =
                        IF ServerOf(edu.user) # req[c].sender THEN cross_signing_keys
                        ELSE IF edu.flag THEN cross_signing_keys \cup {edu.user}
                        ELSE cross_signing_keys
                 /\ UNCHANGED <<pc, response, cur_edu, cur_msg, transaction_ids, to_device,
                                typing, device_list_changed, read_receipt, d2d_done, d2d_skipped>>
            [] edu.kind = "direct" ->
                 /\ IF D2DSkipped(transaction_ids, edu)
                    THEN /\ d2d_skipped' = d2d_skipped \cup {edu.key}
                         /\ UNCHANGED <<pc, cur_edu, cur_msg>>
                    ELSE /\ pc' = [pc EXCEPT ![c] = "d2d"]
                         /\ cur_edu' = [cur_edu EXCEPT ![c] = edu]
                         /\ cur_msg' = [cur_msg EXCEPT ![c] = 0]
                         /\ UNCHANGED d2d_skipped
                 /\ UNCHANGED <<response, transaction_ids, to_device, typing,
                                device_list_changed, cross_signing_keys, read_receipt, d2d_done>>
            [] OTHER ->      \* Presence, _Custom, and EDUs that filter_map dropped
                 UNCHANGED <<pc, response, cur_edu, cur_msg, eduState>>
    /\ UNCHANGED <<notIngest, allow_federation, req, pdu_seen, cur_room, resolved_map,
                   roomid_mutex_federation>>

TxnEdu(c, inputs, maxEdus) ==
    \E edu \in inputs, fail \in BOOLEAN : TxnEduWith(c, edu, fail, maxEdus)

\* iteration order of users.all_device_ids
DeviceOrder == <<"d1", "d2">>

TargetDevices(m) == IF m.dev = "*" THEN DeviceOrder ELSE <<m.dev>>

\* the message is not delivered to all its devices: the payload does not deserialize,
\* or add_to_device_event fails at the failAt-th device (0: no storage failure)
MessageFails(m, failAt) == Len(TargetDevices(m)) > 0 /\ (~m.valid \/ failAt # 0)

\* devices that got the event before the handler stopped
DeliveredTo(m, failAt) ==
    LET devs == TargetDevices(m)
        n == IF ~m.valid THEN 0 ELSE IF failAt = 0 THEN Len(devs) ELSE failAt - 1
    IN  {devs[i] : i \in 1 .. n}

\* users.add_to_device_event for each device of the set
AddToDevice(inbox, key, devs) ==
    [k \in D2DKeys, d \in Devices |-> IF k = key /\ d \in devs THEN inbox[k, d] + 1 ELSE inbox[k, d]]

\* the fan-out of one message of the DirectToDevice EDU
TxnD2DMessage(c) ==
    /\ pc[c] = "d2d"
    /\ cur_msg[c] < Len(cur_edu[c].msgs)
    /\ LET m == cur_edu[c].msgs[cur_msg[c] + 1] IN
       \E failAt \in 0 .. Len(TargetDevices(m)) :
          /\ to_device' = AddToDevice(to_device, cur_edu[c].key, DeliveredTo(m, failAt))
          /\ IF MessageFails(m, failAt)
             THEN /\ Abort(c, IF ~m.valid THEN "Err: Event is invalid" ELSE "Err: storage")
                  /\ UNCHANGED cur_msg
             ELSE /\ cur_msg' = [cur_msg EXCEPT ![c] = @ + 1]
                  /\ UNCHANGED <<pc, response>>
    /\ UNCHANGED <<notIngest, allow_federation, req, pdu_seen, cur_room, resolved_map, edu_count, cur_edu,
                   roomid_mutex_federation, transaction_ids, typing, device_list_changed,
                   cross_signing_keys, read_receipt, d2d_done, d2d_skipped>>

\* "Save transaction id with empty data": add_txnid(&sender, None, &message_id, &[])?
TxnD2DRecord(c) ==
    /\ pc[c] = "d2d"
    /\ cur_msg[c] = Len(cur_edu[c].msgs)
    /\ \E fail \in BOOLEAN :
        IF fail
        THEN Abort(c, "Err: storage") /\ UNCHANGED <<transaction_ids, d2d_done>>
        ELSE /\ transaction_ids' = add_txnid(transaction_ids, cur_edu[c].key)
             /\ d2d_done' = d2d_done \cup {cur_edu[c].key}
             /\ pc' = [pc EXCEPT ![c] = "edus"]
             /\ UNCHANGED response
    /\ UNCHANGED <<notIngest, allow_federation, req, pdu_seen, cur_room, resolved_map, edu_count, cur_edu,
                   cur_msg, roomid_mutex_federation, to_device, typing, device_list_changed,
                   cross_signing_keys, read_receipt, d2d_skipped>>

\* body.edus is exhausted: Ok(Response { pdus: resolved_map })
TxnEdusEnd(c) ==
    /\ pc[c] = "edus"
    /\ pc' = [pc EXCEPT ![c] = "done"]
    /\ response' = [response EXCEPT ![c] = "Ok"]
    /\ UNCHANGED <<notIngest, allow_federation, req, pdu_seen, cur_room, resolved_map, edu_count, cur_edu,
                   cur_msg, roomid_mutex_federation, eduState>>

(***************************************************************************)
(* create_join_event (send_join v1 and v2)                                 *)
(***************************************************************************)
JoinRooms == Rooms \cup {"!unknown"}

\* rooms.exists(room_id)
RoomExists(room) == room \in Rooms \cup {"!badacl"}

\* mutant: the federation switch is not looked at
JoinPrecheck_NoSwitch(sender, room, rest) ==
    IF ~RoomExists(room) THEN "NotFound"
    ELSE IF ~acl_check(sender, room) THEN "Forbidden"
    ELSE rest

\* the checks of create_join_event before it takes the room mutex, in source order;
\* `rest` is the outcome of the checks that read the event and the room state
JoinPrecheck(sender, room, rest) ==
    IF ~allow_federation THEN "bad_config"
    ELSE IF ~RoomExists(room) THEN "NotFound"
    ELSE IF ~acl_check(sender, room) THEN "Forbidden"
    ELSE rest

\* outcomes of: join rules (restricted), current_shortstatehash, gen_event_id_canonical_json, origin
JoinRestOutcomes == {"ok", "Unknown: restricted", "NotFound: state", "InvalidParam"}

\* entry of create_join_event up to mutex.lock().await
JoinStart(c, senders) ==
    /\ pc[c] = "idle"
    /\ \E s \in senders, room \in JoinRooms, rest \in JoinRestOutcomes :
        /\ req' = [req EXCEPT ![c] = [kind |-> "join", sender |-> s, room |-> room]]
        /\ IF JoinPrecheck(s, room, rest) = "ok"
           THEN /\ roomid_mutex_federation' = MutexEntry(roomid_mutex_federation, room)
                /\ cur_room' = [cur_room EXCEPT ![c] = room]
                /\ pc' = [pc EXCEPT ![c] = "jlock"]
                /\ UNCHANGED response
           ELSE /\ Abort(c, JoinPrecheck(s, room, rest))
                /\ UNCHANGED <<cur_room, roomid_mutex_federation>>
    /\ UNCHANGED <<notIngest, allow_federation, pdu_seen, resolved_map, edu_count, cur_edu, cur_msg,
                   eduState>>

\* mutex.lock().await returns
JoinLock(c) ==
    /\ pc[c] = "jlock"
    /\ MutexFree(roomid_mutex_federation, cur_room[c])
    /\ roomid_mutex_federation' = MutexLock(roomid_mutex_federation, cur_room[c], c)
    /\ pc' = [pc EXCEPT ![c] = "jadmit"]
    /\ UNCHANGED <<notIngest, allow_federation, req, pdu_seen, cur_room, resolved_map, edu_count, cur_edu,
                   cur_msg, response, eduState>>

\* handle_incoming_pdu(..).await returns: Ok(Some(pdu_id)), Ok(None) or Err; the guard is
\* dropped by drop(mutex_lock) or, on the two `?`, when it goes out of scope
JoinAdmit(c) ==
    /\ pc[c] = "jadmit"
    /\ roomid_mutex_federation' = MutexUnlock(roomid_mutex_federation, cur_room[c])
    /\ cur_room' = [cur_room EXCEPT ![c] = NoRoom]
    /\ \E result \in {"pdu_id", "none", "err"} :
        IF result = "pdu_id"
        THEN pc' = [pc EXCEPT ![c] = "jstate"] /\ UNCHANGED response
        ELSE Abort(c, "InvalidParam")
    /\ UNCHANGED <<notIngest, allow_federation, req, pdu_seen, resolved_map, edu_count, cur_edu, cur_msg,
                   eduState>>

\* state_full_ids, get_auth_chain, send_pdu and the response
JoinFinish(c) ==
    /\ pc[c] = "jstate"
    /\ \E result \in {"Ok", "Err: state", "Err: auth chain", "Err: send"} :
        /\ pc' = [pc EXCEPT ![c] = "done"]
        /\ response' = [response EXCEPT ![c] = result]
    /\ UNCHANGED <<notIngest, allow_federation, req, pdu_seen, cur_room, resolved_map, edu_count, cur_edu,
                   cur_msg, roomid_mutex_federation, eduState>>

(***************************************************************************)
(* fetch_signing_keys                                                      *)
(***************************************************************************)
KeyCalls == 1 .. NumKeyCalls
KeyServers == {"a.example", "b.example"}
KeyIds == {"ed25519:1", "ed25519:2"}

\* the signature id lists fetch_signing_keys is called with
IdSets == {{"ed25519:1"}, {"ed25519:1", "ed25519:2"}}

\* key sets a server or a notary may answer with
KeyAnswers == {{"ed25519:1"}, {"ed25519:1", "ed25519:2"}}

\* globals.trusted_servers()
TrustedServers == <<"matrix.org">>

\* a semaphore is named <<server, creating call>>
NoSem == <<>>

KeysInit ==
    /\ fk_pc = [k \in KeyCalls |-> "idle"]
    /\ fk_origin = [k \in KeyCalls |-> ""]
    /\ fk_ids = [k \in KeyCalls |-> {}]
    /\ fk_result = [k \in KeyCalls |-> {}]
    /\ fk_sem = [k \in KeyCalls |-> NoSem]
    /\ fk_permit = [k \in KeyCalls |-> FALSE]
    /\ fk_notary = [k \in KeyCalls |-> 0]
    /\ fk_response = [k \in KeyCalls |-> "none"]
    /\ servername_ratelimiter = [s \in {} |-> NoSem]
    /\ sem_permits = [s \in {} |-> 0]
    /\ bad_signature_ratelimiter = [i \in {} |-> [time |-> 0, tries |-> 0]]
    /\ signing_keys = [s \in KeyServers |-> {}]
    /\ now = 0

\* contains_all_ids
contains_all_ids(ids, keys) == ids \subseteq keys

\* Duration::from_secs(30) * tries * tries, capped at 24 hours
BackoffBase == 30
BackoffCap == 86400

\* mutant: the window is not capped
MinElapsedDuration_Uncapped(tries) == BackoffBase * tries * tries

MinElapsedDuration(tries) ==
    IF BackoffBase * tries * tries > BackoffCap THEN BackoffCap ELSE BackoffBase * tries * tries

\* get_server_keys_from_cache: the same window for bad_event_ratelimiter
EventBackoffBase == 30
EventBackoffCap == 86400

EventMinElapsedDuration(tries) ==
    IF EventBackoffBase * tries * tries > EventBackoffCap THEN EventBackoffCap
    ELSE EventBackoffBase * tries * tries

\* the ledger holds an entry for the id list and time.elapsed() < min_elapsed_duration
BackingOff(ledger, ids, t) ==
    /\ ids \in DOMAIN ledger
    /\ t - ledger[ids].time < MinElapsedDuration(ledger[ids].tries)

\* mutant: an occupied entry starts over at one attempt
back_off_StartsOver(ledger, ids, t) == MapInsert(ledger, ids, [time |-> t, tries |-> 1])

\* the closure back_off: a vacant entry becomes (now, 1), an occupied one (now, tries + 1)
back_off(ledger, ids, t) ==
    IF ids \in DOMAIN ledger
    THEN [ledger EXCEPT ![ids] = [time |-> t, tries |-> ledger[ids].tries + 1]]
    ELSE MapInsert(ledger, ids, [time |-> t, tries |-> 1])

\* globals.add_signing_key(origin, keys): verify_keys and old_verify_keys are merged in
add_signing_key(store, origin, keys) == [store EXCEPT ![origin] = @ \cup keys]

\* the call returns: the permit, if still held, is dropped with it
FkReturn(k, r) ==
    /\ fk_pc' = [fk_pc EXCEPT ![k] = "done"]
    /\ fk_response' = [fk_response EXCEPT ![k] = r]
    /\ fk_permit' = [fk_permit EXCEPT ![k] = FALSE]
    /\ sem_permits' = IF fk_permit[k] THEN [sem_permits EXCEPT ![fk_sem[k]] = @ + 1]
                      ELSE sem_permits

\* a caller verifies a signature of `origin` made with the keys `ids`
FkStart(k) ==
    /\ fk_pc[k] = "idle"
    /\ \E origin \in KeyServers, ids \in IdSets :
        /\ fk_origin' = [fk_origin EXCEPT ![k] = origin]
        /\ fk_ids' = [fk_ids EXCEPT ![k] = ids]
    /\ fk_pc' = [fk_pc EXCEPT ![k] = "lookup"]
    /\ UNCHANGED <<notKeys, fk_result, fk_sem, fk_permit, fk_notary, fk_response, servername_ratelimiter,
                   sem_permits, bad_signature_ratelimiter, signing_keys, now>>

\* servername_ratelimiter.read().get(origin).map(|s| Arc::clone(s).acquire_owned())
FkLookup(k) ==
    /\ fk_pc[k] = "lookup"
    /\ IF fk_origin[k] \in DOMAIN servername_ratelimiter
       THEN /\ fk_sem' = [fk_sem EXCEPT ![k] = servername_ratelimiter[fk_origin[k]]]
            /\ fk_pc' = [fk_pc EXCEPT ![k] = "acquire"]
       ELSE /\ fk_pc' = [fk_pc EXCEPT ![k] = "create"]
            /\ UNCHANGED fk_sem
    /\ UNCHANGED <<notKeys, fk_origin, fk_ids, fk_result, fk_permit, fk_notary, fk_response,
                   servername_ratelimiter, sem_permits, bad_signature_ratelimiter, signing_keys,
                   now>>

\* mutant: insert(origin, Arc::new(Semaphore::new(1))) in place of entry(..).or_insert_with(..)
SemaphoreEntry_Insert(reg, origin, k) == MapInsert(reg, origin, <<origin, k>>)

\* write.entry(origin).or_insert_with(|| Arc::new(Semaphore::new(1)))
SemaphoreEntry(reg, origin, k) ==
    IF origin \in DOMAIN reg THEN reg ELSE MapInsert(reg, origin, <<origin, k>>)

\* the None arm: the registry is locked for writing and the entry taken or created
FkCreate(k) ==
    /\ fk_pc[k] = "create"
    /\ LET reg == SemaphoreEntry(servername_ratelimiter, fk_origin[k], k) IN
        /\ servername_ratelimiter' = reg
        /\ sem_permits' = IF reg[fk_origin[k]] \in DOMAIN sem_permits THEN sem_permits
                          ELSE MapInsert(sem_permits, reg[fk_origin[k]], 1)
        /\ fk_sem' = [fk_sem EXCEPT ![k] = reg[fk_origin[k]]]
    /\ fk_pc' = [fk_pc EXCEPT ![k] = "acquire_new"]
    /\ UNCHANGED <<notKeys, fk_origin, fk_ids, fk_result, fk_permit, fk_notary, fk_response,
                   bad_signature_ratelimiter, signing_keys, now>>

\* acquire_owned().await returns: a permit was available
FkAcquire(k) ==
    /\ fk_pc[k] \in {"acquire", "acquire_new"}
    /\ sem_permits[fk_sem[k]] > 0
    /\ sem_permits' = [sem_permits EXCEPT ![fk_sem[k]] = @ - 1]
    /\ fk_permit' = [fk_permit EXCEPT ![k] = TRUE]
    /\ fk_pc' = [fk_pc EXCEPT ![k] = "check"]
    /\ UNCHANGED <<notKeys, fk_origin, fk_ids, fk_result, fk_sem, fk_notary, fk_response,
                   servername_ratelimiter, bad_signature_ratelimiter, signing_keys, now>>

\* mutant: the backoff ledger is not read
LocalOutcome_NoLedger(ledger, store, origin, ids, t) ==
    IF contains_all_ids(ids, store[origin]) THEN "cached" ELSE "fetch"

\* the local part of fetch_signing_keys, in source order: the backoff ledger is read
\* first, the stored keys after it
LocalOutcome(ledger, store, origin, ids, t) ==
    IF BackingOff(ledger, ids, t) THEN "backing_off"
    ELSE IF contains_all_ids(ids, store[origin]) THEN "cached"
    ELSE "fetch"

\* from the permit to the first request: ledger check, signing_keys_for, and the
\* get_server_keys request to the origin is sent
FkCheck(k) ==
    /\ fk_pc[k] = "check"
    /\ LET outcome == LocalOutcome(bad_signature_ratelimiter, signing_keys, fk_origin[k],
                                   fk_ids[k], now)
       IN  CASE outcome = "backing_off" ->
                  /\ FkReturn(k, "Err: still backing off")
                  /\ UNCHANGED fk_result
             [] outcome = "cached" ->
                  /\ fk_result' = [fk_result EXCEPT ![k] = signing_keys[fk_origin[k]]]
                  /\ FkReturn(k, "Ok")
             [] outcome = "fetch" ->
                  /\ fk_result' = [fk_result EXCEPT ![k] = signing_keys[fk_origin[k]]]
                  /\ fk_pc' = [fk_pc EXCEPT ![k] = "origin"]
                  /\ UNCHANGED <<fk_permit, fk_response, sem_permits>>
    /\ UNCHANGED <<notKeys, fk_origin, fk_ids, fk_sem, fk_notary, servername_ratelimiter,
                   bad_signature_ratelimiter, signing_keys, now>>

\* what follows an unsatisfied answer: the next notary is asked, or, after the last one,
\* the permit is dropped (drop(permit)) before the ledger is written
FkNextNotary(k) ==
    IF fk_notary[k] < Len(TrustedServers)
    THEN /\ fk_notary' = [fk_notary EXCEPT ![k] = @ + 1]
         /\ fk_pc' = [fk_pc EXCEPT ![k] = "notary"]
         /\ UNCHANGED <<fk_permit, sem_permits, fk_response>>
    ELSE /\ fk_pc' = [fk_pc EXCEPT ![k] = "record"]
         /\ fk_permit' = [fk_permit EXCEPT ![k] = FALSE]
         /\ sem_permits' = [sem_permits EXCEPT ![fk_sem[k]] = @ + 1]
         /\ UNCHANGED <<fk_notary, fk_response>>

\* the answer of the origin server arrives (or the request fails)
FkOriginAnswer(k) ==
    /\ fk_pc[k] = "origin"
    /\ \E ok \in BOOLEAN, keys \in KeyAnswers :
        IF ok
        THEN /\ signing_keys' = add_signing_key(signing_keys, fk_origin[k], keys)
             /\ fk_result' = [fk_result EXCEPT ![k] = @ \cup keys]
             /\ IF contains_all_ids(fk_ids[k], fk_result[k] \cup keys)
                THEN FkReturn(k, "Ok") /\ UNCHANGED fk_notary
                ELSE FkNextNotary(k)
        ELSE /\ FkNextNotary(k)
             /\ UNCHANGED <<signing_keys, fk_result>>
    /\ UNCHANGED <<notKeys, fk_origin, fk_ids, fk_sem, servername_ratelimiter,
                   bad_signature_ratelimiter, now>>

\* the answer of the notary trusted_servers[fk_notary] arrives (or the request fails)
FkNotaryAnswer(k) ==
    /\ fk_pc[k] = "notary"
    /\ \E ok \in BOOLEAN, keys \in KeyAnswers :
        IF ok
        THEN /\ signing_keys' = add_signing_key(signing_keys, fk_origin[k], keys)
             /\ fk_result' = [fk_result EXCEPT ![k] = @ \cup keys]
             /\ IF contains_all_ids(fk_ids[k], fk_result[k] \cup keys)
                THEN FkReturn(k, "Ok") /\ UNCHANGED fk_notary
                ELSE FkNextNotary(k)
        ELSE /\ FkNextNotary(k)
             /\ UNCHANGED <<signing_keys, fk_result>>
    /\ UNCHANGED <<notKeys, fk_origin, fk_ids, fk_sem, servername_ratelimiter,
                   bad_signature_ratelimiter, now>>

\* back_off(signature_ids) and Err("Failed to find public key for server")
FkRecord(k) ==
    /\ fk_pc[k] = "record"
    /\ bad_signature_ratelimiter' = back_off(bad_signature_ratelimiter, fk_ids[k], now)
    /\ FkReturn(k, "Err: failed to find public key")
    /\ UNCHANGED <<notKeys, fk_origin, fk_ids, fk_result, fk_sem, fk_notary, servername_ratelimiter,
                   signing_keys, now>>

\* the caller is done with the result; a later verification makes a new call
FkAgain(k) ==
    /\ fk_pc[k] = "done"
    /\ \A i \in DOMAIN bad_signature_ratelimiter : bad_signature_ratelimiter[i].tries < MaxTries
    /\ fk_pc' = [fk_pc EXCEPT ![k] = "idle"]
    /\ fk_origin' = [fk_origin EXCEPT ![k] = ""]
    /\ fk_ids' = [fk_ids EXCEPT ![k] = {}]
    /\ fk_result' = [fk_result EXCEPT ![k] = {}]
    /\ fk_sem' = [fk_sem EXCEPT ![k] = NoSem]
    /\ fk_notary' = [fk_notary EXCEPT ![k] = 0]
    /\ fk_response' = [fk_response EXCEPT ![k] = "none"]
    /\ UNCHANGED <<notKeys, fk_permit, servername_ratelimiter, sem_permits, bad_signature_ratelimiter,
                   signing_keys, now>>

\* time passes
Tick ==
    /\ now < MaxTicks * BackoffBase
    /\ now' = now + BackoffBase
    /\ UNCHANGED <<notKeys, fk_pc, fk_origin, fk_ids, fk_result, fk_sem, fk_permit, fk_notary,
                   fk_response, servername_ratelimiter, sem_permits, bad_signature_ratelimiter,
                   signing_keys>>

\* calls for a server between `.await` on the permit and drop(permit) or return
PastPermit(server) ==
    {k \in KeyCalls : fk_origin[k] = server /\ fk_pc[k] \in {"check", "origin", "notary"}}

\* calls with a key query on the network
Querying == {k \in KeyCalls : fk_pc[k] \in {"origin", "notary"}}

(***************************************************************************)
(* fetch_join_signing_keys: the keys of every server that signed an event  *)
(* of a send_join response.  It takes no permit of servername_ratelimiter. *)
(***************************************************************************)
NoJoin == [pc |-> "idle", servers |-> {}, notary |-> 0, pending |-> {}, sent |-> <<>>]

JoinIdle == fj = NoJoin

\* the signatures of the response's events: for some servers, the key ids they signed with
JoinSignatures == UNION {[S -> IdSets] : S \in SUBSET KeyServers}

\* the trusted servers of a configuration with two notaries
JoinTrusted == <<"matrix.org", "notary.example">>

\* the servers in the order of the BTreeMap `servers`
KeyServerList == <<"a.example", "b.example">>

\* get_remote_server_keys_batch to a notary, with server_keys: servers.clone()
BatchRequest(notary, servers) == [kind |-> "batch", to |-> notary, servers |-> servers]

\* one get_server_keys request per entry of `servers`
DirectRequests(servers) ==
    LET list == SelectSeq(KeyServerList, LAMBDA s : s \in servers)
    IN  [i \in 1 .. Len(list) |-> [kind |-> "direct", to |-> list[i], servers |-> {list[i]}]]

\* after the loop over the trusted servers: one get_server_keys request per server left, all
\* polled together by the FuturesUnordered
FjDirect(servers) ==
    [pc |-> "direct", servers |-> servers, notary |-> 0, pending |-> servers,
     sent |-> fj.sent \o DirectRequests(servers)]

\* mutant: the answer of a notary removes nothing
Unresolved_Keeps(servers, answered) == servers

\* servers.remove(&k.server_name) for every k of keys.server_keys
Unresolved(servers, answered) == servers \ answered

\* the pass over the events with get_server_keys_from_cache, then the first batch request,
\* or the direct requests when no server is trusted
FjStartWith(trusted) ==
    /\ fj.pc = "idle"
    /\ \E signatures \in JoinSignatures :
          LET servers == {s \in DOMAIN signatures :
                             ~contains_all_ids(signatures[s], signing_keys[s])}
          IN  fj' = IF servers = {}
                    THEN [fj EXCEPT !.pc = "done"]
                    ELSE IF Len(trusted) = 0
                    THEN FjDirect(servers)
                    ELSE [fj EXCEPT !.pc = "batch", !.servers = servers, !.notary = 1,
                                    !.sent = <<BatchRequest(trusted[1], servers)>>]
    /\ UNCHANGED <<notJoin, signing_keys>>

FjStart == FjStartWith(TrustedServers)

\* the trusted server answers the batch request with keys of the servers `answered`, or
\* with an error (no servers)
FjBatchAnswerFor(trusted, answered, keys) ==
    /\ fj.pc = "batch"
    /\ LET servers == Unresolved(fj.servers, answered)
       IN  /\ signing_keys' = [s \in KeyServers |->
                                  IF s \in answered
                                  THEN add_signing_key(signing_keys, s, keys)[s]
                                  ELSE signing_keys[s]]
           /\ fj' = IF servers = {}
                    THEN [fj EXCEPT !.pc = "done", !.servers = {}]
                    ELSE IF fj.notary < Len(trusted)
                         THEN [fj EXCEPT !.servers = servers, !.notary = @ + 1,
                                         !.sent = Append(@, BatchRequest(trusted[fj.notary + 1],
                                                                         servers))]
                         ELSE FjDirect(servers)
    /\ UNCHANGED notJoin

FjBatchAnswerWith(trusted) ==
    \E answered \in SUBSET fj.servers, keys \in KeyAnswers :
        FjBatchAnswerFor(trusted, answered, keys)

FjBatchAnswer == FjBatchAnswerWith(TrustedServers)

\* one of the direct requests completes, with the server's keys or with an error
FjDirectAnswer ==
    /\ fj.pc = "direct"
    /\ \E origin \in fj.pending :
          /\ \/ \E keys \in KeyAnswers :
                   signing_keys' = add_signing_key(signing_keys, origin, keys)
             \/ UNCHANGED signing_keys
          /\ fj' = [fj EXCEPT !.pending = @ \ {origin},
                              !.pc = IF fj.pending = {origin} THEN "done" ELSE "direct"]
    /\ UNCHANGED notJoin

\* the next call of fetch_join_signing_keys
FjAgain ==
    /\ fj.pc = "done"
    /\ fj' = NoJoin
    /\ UNCHANGED <<notJoin, signing_keys>>

\* the servers whose keys a request of fetch_join_signing_keys on the network asks for
JoinQuerying == IF fj.pc = "batch" THEN fj.servers ELSE fj.pending

(***************************************************************************)
(* The backoff windows of the two ledgers, attempt after attempt.          *)
(***************************************************************************)
BackoffInit ==
    /\ sig_tries = 0
    /\ sig_window = [before |-> 0, current |-> 0]
    /\ ev_tries = 0
    /\ ev_window = [before |-> 0, current |-> 0]

\* back_off(signature_ids) counts one more attempt; the next call computes the window
SignatureFailure ==
    /\ sig_tries < MaxAttempts
    /\ sig_tries' = sig_tries + 1
    /\ sig_window' = [before |-> sig_window.current,
                      current |-> MinElapsedDuration(sig_tries + 1)]
    /\ UNCHANGED <<notBackoff, ev_tries, ev_window>>

\* the same for an entry of bad_event_ratelimiter
EventFailure ==
    /\ ev_tries < MaxAttempts
    /\ ev_tries' = ev_tries + 1
    /\ ev_window' = [before |-> ev_window.current,
                     current |-> EventMinElapsedDuration(ev_tries + 1)]
    /\ UNCHANGED <<notBackoff, sig_tries, sig_window>>

(***************************************************************************)
(*            get_auth_chain and get_auth_chain_inner                      *)
(***************************************************************************)
ChainEvents == {"$a", "$b", "$c"}

\* a stored pdu, as far as the resolver reads it
StoredPdus == [room_id : Rooms, auth_events : SUBSET ChainEvents]

\* every event store over the events: any subset stored, each event in any room and with
\* any auth_events, cycles and events that are not stored included
AllStores == UNION {[stored -> StoredPdus] : stored \in SUBSET ChainEvents}

\* short id tables: the counter behind the short ids is shared, so they are not consecutive
FixedShort == [e \in ChainEvents |-> CASE e = "$a" -> 1 [] e = "$b" -> 2 [] e = "$c" -> 51]

\* every table that gives the events different ids out of five; taken modulo the number of
\* buckets they fall into one, two or three buckets, in every arrangement
ShortTables ==
    {t \in [ChainEvents -> {1, 2, 3, 51, 101}] : \A x, y \in ChainEvents : x # y => t[x] # t[y]}

ChainInit(stores) ==
    /\ shorteventid = FixedShort
    /\ pdus \in stores
    /\ auth_chain_cache = [k \in {} |-> {}]
    /\ chain_call = [room_id |-> NoRoom, starting_events |-> {}, cold |-> FALSE,
                     status |-> "none", chain |-> {}]

ChainIdle ==
    /\ shorteventid = FixedShort
    /\ pdus = [e \in {} |-> [room_id |-> NoRoom, auth_events |-> {}]]
    /\ auth_chain_cache = [k \in {} |-> {}]
    /\ chain_call = [room_id |-> NoRoom, starting_events |-> {}, cold |-> FALSE,
                     status |-> "none", chain |-> {}]

\* rooms.get_or_create_shorteventid: the stable short id of an event
ShortOf == shorteventid

get_or_create_shorteventid(event_id) == ShortOf[event_id]

\* rooms.get_eventid_from_short
get_eventid_from_short(sid) == CHOOSE e \in ChainEvents : ShortOf[e] = sid

NUM_BUCKETS == 50

\* rooms.get_auth_chain_from_cache(key) is Some
CacheHit(cache, key) == key \in DOMAIN cache

\* rooms.cache_auth_chain(key, chain)
cache_auth_chain(cache, key, chain) == MapInsert(cache, key, chain)

\* the order in which a pdu lists its auth_events
Orders == {"asc", "desc"}

\* the events of a set as a list, by short id, ascending or descending
RECURSIVE EventList(_, _)
EventList(events, order) ==
    IF events = {} THEN <<>>
    ELSE LET e == CHOOSE x \in events :
                     \A y \in events :
                         IF order = "asc" THEN ShortOf[x] <= ShortOf[y]
                         ELSE ShortOf[x] >= ShortOf[y]
         IN  <<e>> \o EventList(events \ {e}, order)

\* mutant: every auth event is pushed, found before or not
RECURSIVE PushAuthEvents_NoFoundCheck(_, _, _)
PushAuthEvents_NoFoundCheck(auth_events, todo, found) ==
    IF auth_events = <<>> THEN [todo |-> todo, found |-> found]
    ELSE PushAuthEvents_NoFoundCheck(Tail(auth_events), Append(todo, Head(auth_events)),
                                     found \cup {get_or_create_shorteventid(Head(auth_events))})

\* for auth_event in &pdu.auth_events: an event whose short id is not in `found` is added
\* to `found` and pushed on `todo`
RECURSIVE PushAuthEvents(_, _, _)
PushAuthEvents(auth_events, todo, found) ==
    IF auth_events = <<>> THEN [todo |-> todo, found |-> found]
    ELSE LET sauthevent == get_or_create_shorteventid(Head(auth_events)) IN
         IF sauthevent \in found
         THEN PushAuthEvents(Tail(auth_events), todo, found)
         ELSE PushAuthEvents(Tail(auth_events), Append(todo, Head(auth_events)),
                             found \cup {sauthevent})

\* while let Some(event_id) = todo.pop()
RECURSIVE InnerLoop(_, _, _, _, _)
InnerLoop(room_id, store, order, todo, found) ==
    IF todo = <<>> THEN [ok |-> TRUE, found |-> found]
    ELSE LET event_id == todo[Len(todo)]
             rest == SubSeq(todo, 1, Len(todo) - 1)
         IN  IF event_id \notin DOMAIN store
             THEN InnerLoop(room_id, store, order, rest, found)
             ELSE IF store[event_id].room_id # room_id
             THEN [ok |-> FALSE, found |-> {}]
             ELSE LET pushed == PushAuthEvents(EventList(store[event_id].auth_events, order),
                                               rest, found)
                  IN  InnerLoop(room_id, store, order, pushed.todo, pushed.found)

\* mutant: the starting event counts as found from the start
get_auth_chain_inner_SeedsFound(room_id, event_id, store, order) ==
    InnerLoop(room_id, store, order, <<event_id>>, {get_or_create_shorteventid(event_id)})

get_auth_chain_inner(room_id, event_id, store, order) ==
    InnerLoop(room_id, store, order, <<event_id>>, {})

\* get_auth_chain_inner, one iteration of its loop per step
NoWalk == [pc |-> "idle", room_id |-> NoRoom, event_id |-> "", order |-> "asc", todo |-> <<>>,
           found |-> {}, popped |-> [e \in ChainEvents |-> 0], ok |-> TRUE]

notWalk == <<ingestVars, keysVars, chainVars, sendVars, backoffVars, fj, fd, tls_name_override,
             mjVars, inviteVars, sjVars, ro, gm, rd, cp, ad>>

\* let mut todo = vec![event_id]; let mut found = HashSet::new();
WalkStart ==
    /\ walk.pc = "idle"
    /\ \E room_id \in Rooms, event_id \in ChainEvents, order \in Orders :
          walk' = [NoWalk EXCEPT !.pc = "loop", !.room_id = room_id, !.event_id = event_id,
                                 !.order = order, !.todo = <<event_id>>]
    /\ UNCHANGED notWalk

\* while let Some(event_id) = todo.pop() { .. }; Ok(found) when `todo` is empty
WalkStep ==
    /\ walk.pc = "loop"
    /\ IF walk.todo = <<>>
       THEN walk' = [walk EXCEPT !.pc = "done"]
       ELSE LET event_id == walk.todo[Len(walk.todo)]
                rest == SubSeq(walk.todo, 1, Len(walk.todo) - 1)
                popped == [walk.popped EXCEPT ![event_id] = @ + 1]
            IN  IF event_id \notin DOMAIN pdus
                THEN walk' = [walk EXCEPT !.todo = rest, !.popped = popped]
                ELSE IF pdus[event_id].room_id # walk.room_id
                THEN walk' = [walk EXCEPT !.pc = "done", !.ok = FALSE, !.todo = rest,
                                          !.popped = popped, !.found = {}]
                ELSE LET pushed == PushAuthEvents(
                                       EventList(pdus[event_id].auth_events, walk.order),
                                       rest, walk.found)
                     IN  walk' = [walk EXCEPT !.todo = pushed.todo, !.found = pushed.found,
                                              !.popped = popped]
    /\ UNCHANGED notWalk

\* the loop over one chunk after a miss of its key: per event, the cached chain or the walk,
\* whose result is cached at once; the first failing walk ends the call
RECURSIVE ChunkLoop(_, _, _, _, _, _)
ChunkLoop(room_id, store, order, chunk, cache, chunk_cache) ==
    IF chunk = <<>> THEN [ok |-> TRUE, cache |-> cache, chain |-> chunk_cache]
    ELSE LET event_id == Head(chunk)
             sevent_id == get_or_create_shorteventid(event_id)
         IN  IF CacheHit(cache, <<sevent_id>>)
             THEN ChunkLoop(room_id, store, order, Tail(chunk), cache,
                            chunk_cache \cup cache[<<sevent_id>>])
             ELSE LET auth_chain == get_auth_chain_inner(room_id, event_id, store, order) IN
                  IF ~auth_chain.ok
                  THEN [ok |-> FALSE, cache |-> cache, chain |-> {}]
                  ELSE ChunkLoop(room_id, store, order, Tail(chunk),
                                 cache_auth_chain(cache, <<sevent_id>>, auth_chain.found),
                                 chunk_cache \cup auth_chain.found)

\* the starting events that fall into bucket b, by short id
Chunk(starting_events, b) ==
    EventList({e \in starting_events : get_or_create_shorteventid(e) % NUM_BUCKETS = b}, "asc")

\* chunk.iter().map(|(short, _)| short)
ChunkKey(chunk) == [i \in 1 .. Len(chunk) |-> get_or_create_shorteventid(chunk[i])]

\* mutant: only the first bucket that is not empty is walked
BucketList_First(ids) ==
    IF ids = {} THEN <<>> ELSE <<CHOOSE x \in ids : \A y \in ids : x <= y>>

\* the ids of the buckets that are not empty, ascending (an empty chunk is passed over)
RECURSIVE BucketList(_)
BucketList(ids) ==
    IF ids = {} THEN <<>>
    ELSE LET b == CHOOSE x \in ids : \A y \in ids : x <= y
         IN  <<b>> \o BucketList(ids \ {b})

\* for chunk in buckets
RECURSIVE BucketLoop(_, _, _, _, _, _, _)
BucketLoop(room_id, store, order, starting_events, buckets, cache, full_auth_chain) ==
    IF buckets = <<>> THEN [ok |-> TRUE, cache |-> cache, chain |-> full_auth_chain]
    ELSE LET chunk == Chunk(starting_events, Head(buckets))
             chunk_key == ChunkKey(chunk)
         IN  IF CacheHit(cache, chunk_key)
             THEN BucketLoop(room_id, store, order, starting_events, Tail(buckets), cache,
                             full_auth_chain \cup cache[chunk_key])
             ELSE LET walked == ChunkLoop(room_id, store, order, chunk, cache, {}) IN
                  IF ~walked.ok
                  THEN [ok |-> FALSE, cache |-> walked.cache, chain |-> {}]
                  ELSE BucketLoop(room_id, store, order, starting_events, Tail(buckets),
                                  cache_auth_chain(walked.cache, chunk_key, walked.chain),
                                  full_auth_chain \cup walked.chain)

\* get_auth_chain: the result, as event ids, and the cache it leaves
get_auth_chain(room_id, starting_events, store, cache, order) ==
    LET buckets == BucketList({get_or_create_shorteventid(e) % NUM_BUCKETS :
                                   e \in starting_events})
        done == BucketLoop(room_id, store, order, starting_events, buckets, cache, {})
    IN  [ok |-> done.ok, cache |-> done.cache,
         chain |-> {get_eventid_from_short(sid) : sid \in done.chain}]

\* auth_events edges followed once from the stored events of a set
AuthStep(store, events) == UNION {store[e].auth_events : e \in events \cap DOMAIN store}

\* the events reached from a set within n steps, at least one
RECURSIVE ReachedWithin(_, _, _)
ReachedWithin(store, events, n) ==
    IF n = 1 THEN AuthStep(store, events)
    ELSE LET near == ReachedWithin(store, events, n - 1)
         IN  near \cup AuthStep(store, near)

\* the events reachable from a set by following auth_events once or more through stored events
Reachable(store, events) == ReachedWithin(store, events, Cardinality(ChainEvents))

\* an event id is the hash of the event, auth_events included: stores a server can build
\* hold no event that reaches itself
AcyclicStores == {store \in AllStores : \A e \in DOMAIN store : e \notin Reachable(store, {e})}

\* one call of get_auth_chain; it has no suspension point within a hundred events.
\* `again` is whether calls after the first are made
ChainCall(again) ==
    /\ again \/ chain_call.status = "none"
    /\ \E room_id \in Rooms, starting_events \in SUBSET ChainEvents, order \in Orders :
       \E r \in {get_auth_chain(room_id, starting_events, pdus, auth_chain_cache, order)} :
        /\ auth_chain_cache' = r.cache
        /\ chain_call' = [room_id |-> room_id, starting_events |-> starting_events,
                          cold |-> auth_chain_cache = [k \in {} |-> {}],
                          status |-> IF r.ok THEN "Ok" ELSE "Forbidden",
                          chain |-> r.chain]
    /\ UNCHANGED <<notChain, pdus, shorteventid>>

(***************************************************************************)
(*                             send_request                                *)
(***************************************************************************)
SendCalls == 1 .. NumSendCalls

\* what find_actual_destination may resolve a server name to, as (actual destination,
\* host header); the answer may differ from one resolution to the next
Resolutions(destination) ==
    IF destination = "good.example"
    THEN {<<"good.example:8448", "good.example:8448">>,
          <<"srv.good.example:443", "good.example">>}
    ELSE {<<"evil.example:8448", "evil.example:8448">>,
          <<"srv.evil.example:443", "evil.example">>}

NoDestination == <<"", "">>

\* what the transport and the peer may answer
TransportOutcomes ==
    {"200_decodable", "200_undecodable", "error_decodable", "error_undecodable", "network_error"}

SendInit ==
    /\ sr_pc = [c \in SendCalls |-> "idle"]
    /\ sr_destination = [c \in SendCalls |-> ""]
    /\ sr_actual = [c \in SendCalls |-> NoDestination]
    /\ write_destination_to_cache = [c \in SendCalls |-> FALSE]
    /\ sr_response = [c \in SendCalls |-> "none"]
    /\ actual_destination_cache = [s \in {} |-> NoDestination]
    /\ sr_verified = {}
    /\ sr_executed = [c \in SendCalls |-> 0]

\* the call returns
SrReturn(c, r) ==
    /\ sr_pc' = [sr_pc EXCEPT ![c] = "done"]
    /\ sr_response' = [sr_response EXCEPT ![c] = r]

\* try_into_http_request on the resolved destination, then federation_client().execute(..)
\* is awaited; an unusable destination ends the call
SrSend(c, valid) ==
    IF valid
    THEN /\ sr_pc' = [sr_pc EXCEPT ![c] = "sent"]
         /\ sr_executed' = [sr_executed EXCEPT ![c] = @ + 1]
         /\ UNCHANGED sr_response
    ELSE SrReturn(c, "Err: Invalid destination") /\ UNCHANGED sr_executed

\* send_request up to its first await: the federation switch, the cache read and, on a
\* hit, the request
SrStart(c) ==
    /\ sr_pc[c] = "idle"
    /\ \E destination \in Servers, valid \in BOOLEAN :
        /\ sr_destination' = [sr_destination EXCEPT ![c] = destination]
        /\ IF ~allow_federation
           THEN /\ SrReturn(c, "Err: Federation is disabled.")
                /\ UNCHANGED <<sr_actual, write_destination_to_cache, sr_executed>>
           ELSE IF destination \in DOMAIN actual_destination_cache
           THEN /\ sr_actual' = [sr_actual EXCEPT ![c] = actual_destination_cache[destination]]
                /\ UNCHANGED write_destination_to_cache
                /\ SrSend(c, valid)
           ELSE /\ write_destination_to_cache' = [write_destination_to_cache EXCEPT ![c] = TRUE]
                /\ sr_pc' = [sr_pc EXCEPT ![c] = "resolve"]
                /\ UNCHANGED <<sr_actual, sr_response, sr_executed>>
    /\ UNCHANGED <<notSend, actual_destination_cache, sr_verified>>

\* find_actual_destination(destination).await returns, and the request is sent
SrResolve(c) ==
    /\ sr_pc[c] = "resolve"
    /\ \E result \in Resolutions(sr_destination[c]), valid \in BOOLEAN :
        /\ sr_actual' = [sr_actual EXCEPT ![c] = result]
        /\ SrSend(c, valid)
    /\ UNCHANGED <<notSend, sr_destination, write_destination_to_cache,
                   actual_destination_cache, sr_verified>>

\* mutant: the destination is cached after any response with status 200
WritesDestination_AnyStatus200(outcome, write) ==
    outcome \in {"200_decodable", "200_undecodable"} /\ write

\* status == 200, response.is_ok() && write_destination_to_cache
WritesDestination(outcome, write) == outcome = "200_decodable" /\ write

\* mutant: any answer with a status other than 200 is a FederationError
SendResult_AnyErrorBody(destination, outcome) ==
    CASE outcome = "200_decodable" -> "Ok"
      [] outcome = "200_undecodable" -> "Err: Server returned bad 200 response."
      [] outcome = "error_decodable" -> "Err: FederationError from " \o destination
      [] outcome = "error_undecodable" -> "Err: FederationError from " \o destination
      [] outcome = "network_error" -> "Err: network"

\* what send_request returns for an outcome of the transport
SendResult(destination, outcome) ==
    CASE outcome = "200_decodable" -> "Ok"
      [] outcome = "200_undecodable" -> "Err: Server returned bad 200 response."
      [] outcome = "error_decodable" -> "Err: FederationError from " \o destination
      [] outcome = "error_undecodable" -> "Err: Server returned bad error response."
      [] outcome = "network_error" -> "Err: network"

\* the transport answers with `outcome`
SrRespondWith(c, outcome) ==
    /\ sr_pc[c] = "sent"
    /\ actual_destination_cache' =
          IF WritesDestination(outcome, write_destination_to_cache[c])
          THEN MapInsert(actual_destination_cache, sr_destination[c], sr_actual[c])
          ELSE actual_destination_cache
    /\ sr_verified' = IF outcome = "200_decodable"
                      THEN sr_verified \cup {<<sr_destination[c], sr_actual[c]>>}
                      ELSE sr_verified
    /\ SrReturn(c, SendResult(sr_destination[c], outcome))
    /\ UNCHANGED <<notSend, sr_destination, sr_actual, write_destination_to_cache, sr_executed>>

SrRespond(c) == \E outcome \in TransportOutcomes : SrRespondWith(c, outcome)

(***************************************************************************)
(* find_actual_destination.  A string is the sequence of its pieces: the   *)
(* characters ":", "[" and "]" stand for themselves, and a run of other    *)
(* characters is one piece.  Addresses are written in canonical form, so   *)
(* that printing a parsed address gives back the text parsed.              *)
(***************************************************************************)
DefaultPort == 8448

\* FedDest::Literal(SocketAddr) and FedDest::Named(host, port)
Literal(ip, port) == [kind |-> "Literal", host |-> ip, port |-> port]

Named(host, port) == [kind |-> "Named", host |-> host, port |-> port]

\* str::find(':'): the position of the first colon, 0 for None
find(s) ==
    LET hits == {i \in 1 .. Len(s) : s[i] = ":"}
    IN  IF hits = {} THEN 0 ELSE CHOOSE i \in hits : \A j \in hits : i <= j

\* str::parse::<u16>(), as an Option: the set of its values
parse_u16(s) ==
    IF Len(s) = 1 THEN {p \in {443, 1234, 1337, 8448, 8933} : ToString(p) = s[1]} ELSE {}

\* str::parse::<IpAddr>() is Ok: dotted IPv4, or hexadecimal groups and at least two colons
parse_IpAddr(s) ==
    \/ Len(s) = 1 /\ s[1] \in {"1.1.1.1", "10.0.0.1"}
    \/ /\ \A i \in 1 .. Len(s) : s[i] \in {"dead", "beef", ":"}
       /\ Cardinality({i \in 1 .. Len(s) : s[i] = ":"}) >= 2

\* str::parse::<SocketAddr>(), as an Option: v4:port or [v6]:port
parse_SocketAddr(s) ==
    LET n == Len(s)
    IN  IF n = 3 /\ s[2] = ":" /\ find(<<s[1]>>) = 0 /\ parse_IpAddr(<<s[1]>>)
        THEN {Literal(<<s[1]>>, p) : p \in parse_u16(<<s[3]>>)}
        ELSE IF /\ n >= 5 /\ s[1] = "[" /\ s[n - 2] = "]" /\ s[n - 1] = ":"
                /\ parse_IpAddr(SubSeq(s, 2, n - 3))
             THEN {Literal(SubSeq(s, 2, n - 3), p) : p \in parse_u16(<<s[n]>>)}
             ELSE {}

\* mutant: no text is taken for an address
get_ip_with_port_Never(destination_str) == {}

\* get_ip_with_port, as an Option
get_ip_with_port(destination_str) ==
    IF parse_SocketAddr(destination_str) # {}
    THEN parse_SocketAddr(destination_str)
    ELSE IF parse_IpAddr(destination_str)
         THEN {Literal(destination_str, DefaultPort)}
         ELSE {}

\* mutant: a name without a port gets none
add_port_to_hostname_NoDefault(destination_str) ==
    LET pos == find(destination_str)
    IN  IF pos = 0
        THEN Named(destination_str, <<>>)
        ELSE Named(SubSeq(destination_str, 1, pos - 1),
                   SubSeq(destination_str, pos, Len(destination_str)))

\* add_port_to_hostname
add_port_to_hostname(destination_str) ==
    LET pos == find(destination_str)
    IN  IF pos = 0
        THEN Named(destination_str, <<":", "8448">>)
        ELSE Named(SubSeq(destination_str, 1, pos - 1),
                   SubSeq(destination_str, pos, Len(destination_str)))

\* mutant: the port of a destination is never read
port_Unparsed(dest) == {}

\* FedDest::port, as an Option
port(dest) ==
    IF dest.kind = "Literal" THEN {dest.port} ELSE parse_u16(SubSeq(dest.port, 2, Len(dest.port)))

\* the host header, from the local `hostname` at the end of find_actual_destination
host_header(hostname) ==
    IF parse_SocketAddr(hostname) # {}
    THEN CHOOSE addr \in parse_SocketAddr(hostname) : TRUE
    ELSE IF parse_IpAddr(hostname)
         THEN Named(hostname, <<":", "8448">>)
         ELSE IF find(hostname) # 0
              THEN Named(SubSeq(hostname, 1, find(hostname) - 1),
                         SubSeq(hostname, find(hostname), Len(hostname)))
              ELSE Named(hostname, <<":", "8448">>)

\* server names a request may be sent to
ServerNames ==
    {<<"example.com">>, <<"example.com", ":", "1337">>,
     <<"1.1.1.1">>, <<"1.1.1.1", ":", "1234">>,
     <<"[", "dead", ":", ":", "beef", "]">>, <<"[", "dead", ":", ":", "beef", "]", ":", "8933">>}

\* values of "m.server" a .well-known file may carry
WellKnownBodies ==
    {<<"delegated.example">>, <<"delegated.example", ":", "443">>,
     <<"10.0.0.1">>, <<"10.0.0.1", ":", "1234">>,
     <<"dead", ":", "beef", ":", ":">>, <<"[", "dead", ":", ":", "beef", "]", ":", "8933">>}

NoName == <<>>

NoFedDest == Named(NoName, NoName)

ResolveIdle ==
    /\ fd = [pc |-> "idle", destination |-> NoName, hostname |-> NoName, delegated |-> NoName,
             srv |-> NoFedDest, lookup_ip |-> {}, requests |-> <<>>,
             actual_destination |-> NoFedDest, host |-> NoFedDest]
    /\ tls_name_override = [h \in {} |-> [ips |-> {}, port |-> 0]]

\* the end of find_actual_destination: (actual_destination, hostname)
FdReturn(call, actual_destination) ==
    [call EXCEPT !.pc = "done", !.actual_destination = actual_destination,
                 !.host = host_header(call.hostname)]

\* 1, 2: an IP literal or a name with a port is used as it is; else .well-known is requested
FdStart ==
    /\ fd.pc = "idle"
    /\ \E destination \in ServerNames :
          LET call == [fd EXCEPT !.destination = destination, !.hostname = destination]
              pos == find(destination)
          IN  fd' = IF get_ip_with_port(destination) # {}
                    THEN FdReturn(call, CHOOSE host_port \in get_ip_with_port(destination) : TRUE)
                    ELSE IF pos # 0
                         THEN FdReturn(call, Named(SubSeq(destination, 1, pos - 1),
                                                   SubSeq(destination, pos, Len(destination))))
                         ELSE [call EXCEPT !.pc = "well_known", !.requests = <<"well_known">>]
    /\ UNCHANGED <<notResolve, tls_name_override>>

\* request_well_known answers: 3, 3.1, 3.2 with a delegated name, 4 with None
FdWellKnown ==
    /\ fd.pc = "well_known"
    /\ \/ \E delegated_hostname \in WellKnownBodies :
             LET hostname == add_port_to_hostname(delegated_hostname)
                 call == [fd EXCEPT !.delegated = delegated_hostname,
                                    !.hostname = hostname.host \o hostname.port]
                 pos == find(delegated_hostname)
             IN  fd' = IF get_ip_with_port(delegated_hostname) # {}
                       THEN FdReturn(call, CHOOSE host_and_port \in
                                               get_ip_with_port(delegated_hostname) : TRUE)
                       ELSE IF pos # 0
                            THEN FdReturn(call,
                                          Named(SubSeq(delegated_hostname, 1, pos - 1),
                                                SubSeq(delegated_hostname, pos,
                                                       Len(delegated_hostname))))
                            ELSE [call EXCEPT !.pc = "srv",
                                              !.requests = Append(@, "srv")]
       \/ fd' = [fd EXCEPT !.pc = "srv", !.requests = Append(@, "srv")]
    /\ UNCHANGED <<notResolve, tls_name_override>>

\* the name the SRV record is asked for, which is the key of the override and the host of
\* the destination: the delegated name (3.3, 3.4), else the server name (4, 5)
SrvName(call) == IF call.delegated # NoName THEN call.delegated ELSE call.destination

\* query_srv_record answers: the first record as Named(target, ":port"), or None
FdSrv ==
    /\ fd.pc = "srv"
    /\ \/ \E target \in {<<"srv.example">>}, p \in {443, DefaultPort} :
             fd' = [fd EXCEPT !.pc = "lookup_ip", !.srv = Named(target, <<":", ToString(p)>>),
                              !.requests = Append(@, "lookup_ip")]
       \/ fd' = FdReturn(fd, add_port_to_hostname(SrvName(fd)))
    /\ UNCHANGED <<notResolve, tls_name_override>>

\* dns_resolver().lookup_ip(hostname_override.hostname()) answers: addresses, or an error
FdLookupIp ==
    /\ fd.pc = "lookup_ip"
    /\ \E override_ip \in {{}, {"10.0.0.1"}, {"10.0.0.1", "10.0.0.2"}} :
          LET force_port == port(fd.srv)
              call == [fd EXCEPT !.lookup_ip = override_ip]
          IN  /\ tls_name_override' =
                    IF override_ip # {}
                    THEN MapInsert(tls_name_override, SrvName(fd),
                                   [ips |-> override_ip,
                                    port |-> IF force_port # {}
                                             THEN CHOOSE p \in force_port : TRUE
                                             ELSE DefaultPort])
                    ELSE tls_name_override
              /\ fd' = IF force_port # {}
                       THEN FdReturn(call, Named(SrvName(fd),
                                                 <<":", ToString(CHOOSE p \in force_port : TRUE)>>))
                       ELSE FdReturn(call, add_port_to_hostname(SrvName(fd)))
    /\ UNCHANGED notResolve

\* the next call
FdAgain ==
    /\ fd.pc = "done"
    /\ fd' = [pc |-> "idle", destination |-> NoName, hostname |-> NoName,
              delegated |-> NoName, srv |-> NoFedDest, lookup_ip |-> {}, requests |-> <<>>,
              actual_destination |-> NoFedDest, host |-> NoFedDest]
    /\ UNCHANGED <<notResolve, tls_name_override>>

(***************************************************************************)
(* create_join_event_template_route (make_join)                            *)
(***************************************************************************)
MjCalls == {1, 2}

NoMj == [pc |-> "idle", room |-> NoRoom, ver |-> {}, join_rule |-> "none", built |-> FALSE,
         response |-> "none"]

\* rooms.state.get_room_version
RoomVersion(room) == IF room = "!acl" THEN "6" ELSE "9"

\* mutant: the requester's ver list is not consulted
MjOutcome_AnyVersion(room, join_rule, ver) ==
    IF join_rule = "invalid" THEN "bad_database"
    ELSE IF join_rule = "restricted" THEN "Unknown: restricted"
    ELSE "Ok"

\* the checks of make_join under the state lock, in source order
MjOutcome(room, join_rule, ver) ==
    IF join_rule = "invalid" THEN "bad_database"
    ELSE IF join_rule = "restricted" THEN "Unknown: restricted"
    ELSE IF RoomVersion(room) \notin ver THEN "IncompatibleRoomVersion"
    ELSE "Ok"

\* entry of make_join up to mutex_state.lock().await
MjStart(c) ==
    /\ mj[c].pc = "idle"
    /\ \E sender \in Servers, room \in JoinRooms, ver \in {{"6"}, {"6", "9"}} :
          LET precheck == JoinPrecheck(sender, room, "ok")
              call == [mj[c] EXCEPT !.room = room, !.ver = ver]
          IN  IF precheck = "ok"
              THEN /\ roomid_mutex_state' = MutexEntry(roomid_mutex_state, room)
                   /\ mj' = [mj EXCEPT ![c] = [call EXCEPT !.pc = "lock"]]
              ELSE /\ mj' = [mj EXCEPT ![c] = [call EXCEPT !.pc = "done", !.response = precheck]]
                   /\ UNCHANGED roomid_mutex_state
    /\ UNCHANGED <<notRoutes, inviteVars, sjVars>>

\* mutex_state.lock().await returns
MjLock(c) ==
    /\ mj[c].pc = "lock"
    /\ MutexFree(roomid_mutex_state, mj[c].room)
    /\ roomid_mutex_state' = MutexLock(roomid_mutex_state, mj[c].room, c)
    /\ mj' = [mj EXCEPT ![c].pc = "build"]
    /\ UNCHANGED <<notRoutes, inviteVars, sjVars>>

\* join rules, room version, create_hash_and_sign_event; the guard is dropped by
\* drop(state_lock) or, on an early return, when it goes out of scope
MjBuild(c) ==
    /\ mj[c].pc = "build"
    /\ \E join_rule \in {"none", "public", "restricted", "invalid"} :
          LET outcome == MjOutcome(mj[c].room, join_rule, mj[c].ver)
          IN  mj' = [mj EXCEPT ![c] = [@ EXCEPT !.pc = "done", !.join_rule = join_rule,
                                                !.built = (outcome = "Ok"),
                                                !.response = outcome]]
    /\ roomid_mutex_state' = MutexUnlock(roomid_mutex_state, mj[c].room)
    /\ UNCHANGED <<notRoutes, inviteVars, sjVars>>

(***************************************************************************)
(* create_invite_route                                                     *)
(***************************************************************************)
InviteRooms == JoinRooms \cup {"!badacl"}

\* body.event: bytes that do not give a PduEvent, or an event with its room_id
InviteEvents ==
    {[valid |-> FALSE, room_id |-> NoRoom]}
        \cup {[valid |-> TRUE, room_id |-> r] : r \in InviteRooms}

\* the checks of create_invite_route in source order; `fail`: update_membership fails
InviteOutcome(sender, room_id, supported, event, fail) ==
    IF ~allow_federation THEN "bad_config"
    ELSE IF ~acl_check(sender, room_id) THEN "Forbidden"
    ELSE IF ~supported THEN "IncompatibleRoomVersion"
    ELSE IF ~event.valid THEN "InvalidParam"
    ELSE IF ~RoomExists(event.room_id) /\ fail THEN "Err: update_membership"
    ELSE "Ok"

\* if !rooms.exists(&pdu.room_id) { update_membership(&body.room_id, ..Invite..) }
InviteWrites(outcome, room_id, event) ==
    IF outcome = "Ok" /\ ~RoomExists(event.room_id) THEN {room_id} ELSE {}

NoInvite == [sender |-> "", room_id |-> NoRoom, event_room |-> NoRoom, response |-> "none"]

\* the route has no await: one step from the request to the response; `inv` keeps what
\* the route read of the request, which is nothing when it returns at the federation switch
CreateInvite ==
    /\ IF ~allow_federation
       THEN /\ inv' = [NoInvite EXCEPT !.response = "bad_config"]
            /\ UNCHANGED invite_membership
       ELSE \E sender \in Servers, room_id \in InviteRooms, supported \in BOOLEAN,
               event \in InviteEvents, fail \in BOOLEAN :
               LET outcome == InviteOutcome(sender, room_id, supported, event, fail)
               IN  /\ inv' = [sender |-> sender, room_id |-> room_id,
                              event_room |-> event.room_id, response |-> outcome]
                   /\ invite_membership' =
                          invite_membership \cup InviteWrites(outcome, room_id, event)
    /\ UNCHANGED <<notRoutes, mjVars, sjVars>>

(***************************************************************************)
(* create_join_event (send_join), with the room state and the outbound     *)
(* queue                                                                   *)
(***************************************************************************)
SjCalls == {1, 2}
JoinEvents == {"$j1", "$j2"}
LocalServer == "local.example"

NoSj == [pc |-> "idle", room |-> NoRoom, event |-> "", hash |-> 0, known |-> FALSE,
         admitted |-> FALSE, before |-> 0, state |-> {}, response |-> "none"]

\* the holder recorded in the mutex registry for request c of this route
SjHolder(c) == NumCalls + c

\* rooms.current_shortstatehash(room_id): the index of the last state of the room
current_shortstatehash(room) == Len(room_states[room])

\* mutant: the state is read when the response is built
state_full_ids_Current(room, shortstatehash) == room_states[room][Len(room_states[room])]

\* rooms.state_full_ids(shortstatehash)
state_full_ids(room, shortstatehash) == room_states[room][shortstatehash]

\* rooms.room_servers(room_id)
room_servers(room) ==
    IF room = "!acl" THEN {LocalServer, "good.example"}
    ELSE {LocalServer, "good.example", "evil.example"}

\* handle_incoming_pdu for an event and the current state of its room: Ok(Some(pdu_id)),
\* Ok(None) or Err; an event that is a timeline event already is answered with its pdu id
AdmitOutcomes == {"pdu_id", "none", "err"}

\* the state of the room after handle_incoming_pdu returned `result`
AdmitStates(states, event, result) ==
    IF result = "pdu_id" /\ event \notin states[Len(states)]
    THEN Append(states, states[Len(states)] \cup {event})
    ELSE states

notSendJoin == <<allow_federation, pc, req, pdu_seen, cur_room, resolved_map, edu_count, cur_edu,
                 cur_msg, response, eduState, keysVars, chainVars, sendVars, backoffVars, fj, fd,
                 tls_name_override, mjVars, inviteVars, ro, restVars>>

\* entry of create_join_event up to mutex.lock().await; the state hash is read at 1564
SjStart(c) ==
    /\ sj[c].pc = "idle"
    /\ \E sender \in Servers, room \in JoinRooms, event \in JoinEvents, rest \in JoinRestOutcomes :
          LET precheck == JoinPrecheck(sender, room, rest)
              call == [sj[c] EXCEPT !.room = room, !.event = event]
          IN  IF precheck = "ok"
              THEN /\ roomid_mutex_federation' = MutexEntry(roomid_mutex_federation, room)
                   /\ sj' = [sj EXCEPT ![c] =
                                [call EXCEPT !.pc = "lock",
                                             !.hash = current_shortstatehash(room),
                                             !.known = (event \in state_full_ids(room,
                                                            current_shortstatehash(room)))]]
              ELSE /\ sj' = [sj EXCEPT ![c] = [call EXCEPT !.pc = "done", !.response = precheck]]
                   /\ UNCHANGED roomid_mutex_federation
    /\ UNCHANGED <<notSendJoin, room_states, outbound>>

\* mutex.lock().await returns
SjLock(c) ==
    /\ sj[c].pc = "lock"
    /\ MutexFree(roomid_mutex_federation, sj[c].room)
    /\ roomid_mutex_federation' = MutexLock(roomid_mutex_federation, sj[c].room, SjHolder(c))
    /\ sj' = [sj EXCEPT ![c].pc = "admit"]
    /\ UNCHANGED <<notSendJoin, room_states, outbound>>

\* handle_incoming_pdu(..).await returns; the guard is dropped
SjAdmit(c) ==
    /\ sj[c].pc = "admit"
    /\ roomid_mutex_federation' = MutexUnlock(roomid_mutex_federation, sj[c].room)
    /\ \E result \in AdmitOutcomes :
          /\ room_states' = [room_states EXCEPT ![sj[c].room] = AdmitStates(@, sj[c].event, result)]
          /\ IF result = "pdu_id"
             THEN sj' = [sj EXCEPT ![c] = [@ EXCEPT !.pc = "state", !.admitted = TRUE,
                                                    !.before = current_shortstatehash(sj[c].room)]]
             ELSE sj' = [sj EXCEPT ![c] = [@ EXCEPT !.pc = "done", !.response = "InvalidParam"]]
    /\ UNCHANGED <<notSendJoin, outbound>>

\* state_full_ids(shortstatehash), get_auth_chain, room_servers, send_pdu, the response
SjFinish(c) ==
    /\ sj[c].pc = "state"
    /\ \E result \in {"Ok", "Err: state", "Err: auth chain", "Err: send"} :
          /\ sj' = [sj EXCEPT ![c] =
                       [@ EXCEPT !.pc = "done", !.response = result,
                                 !.state = IF result = "Ok"
                                           THEN state_full_ids(sj[c].room, sj[c].hash) ELSE {}]]
          /\ outbound' = IF result = "Ok"
                         THEN Append(outbound, [call |-> c, pdu |-> sj[c].event,
                                                servers |-> room_servers(sj[c].room) \ {LocalServer}])
                         ELSE outbound
    /\ UNCHANGED <<notSendJoin, roomid_mutex_federation, room_states>>

(***************************************************************************)
(* The routes that read and answer: version, server keys, public rooms,    *)
(* event, missing events, event auth, room state, state ids, devices,      *)
(* room information, profile, keys query, keys claim                       *)
(***************************************************************************)
ReadRoutes ==
    {"get_server_version", "get_server_keys", "get_server_keys_deprecated",
     "get_public_rooms_filtered", "get_public_rooms", "get_event", "get_missing_events",
     "get_event_authorization", "get_room_state", "get_room_state_ids", "get_devices",
     "get_room_information", "get_profile_information", "get_keys", "claim_keys"}

NoRead == [route |-> "", read |-> FALSE, response |-> "none"]

\* each of them starts with the federation switch; what follows reads the stores
ReadRoute ==
    /\ \E route \in ReadRoutes :
          IF ~allow_federation
          THEN ro' = [route |-> route, read |-> FALSE, response |-> "bad_config"]
          ELSE \E result \in {"Ok", "Err: NotFound"} :
                  ro' = [route |-> route, read |-> TRUE, response |-> result]
    /\ UNCHANGED <<ingestVars, keysVars, chainVars, sendVars, backoffVars, fj, fd,
                   tls_name_override, mjVars, inviteVars, sjVars, restVars>>

(***************************************************************************)
(* get_missing_events_route                                                *)
(***************************************************************************)
MaxLimit == 3
MissingEvents == {"$a", "$b"}

\* the prev_events field of a stored event
PrevLists == {<<>>, <<"$a">>, <<"$b">>, <<"$a", "$b">>, <<"$b", "$a">>}

\* every store over the events: any subset stored, each in any room and with any
\* prev_events, an event that lists itself and cycles included
MissingStores ==
    UNION {[stored -> [room_id : Rooms, prev_events : PrevLists]] : stored \in SUBSET MissingEvents}

NoMissing == [pc |-> "idle", store |-> <<>>, room_id |-> NoRoom, earliest_events |-> {},
              limit |-> 0, queued_events |-> <<>>, i |-> 0, events |-> <<>>,
              response |-> "none"]

notMissing == <<ingestVars, keysVars, chainVars, sendVars, backoffVars, fj, fd, tls_name_override,
                mjVars, inviteVars, sjVars, ro, walk, rd, cp, ad>>

\* the checks before the loop, in source order
MissingPrecheck(sender, room_id, in_room) ==
    IF ~allow_federation THEN "bad_config"
    ELSE IF ~in_room THEN "Forbidden: Server is not in room"
    ELSE IF ~acl_check(sender, room_id) THEN "Forbidden"
    ELSE "ok"

\* mutant: the loop goes on while events are queued
MissingContinue_NoLimit(i, queued_events, events, limit) == i < Len(queued_events)

\* while i < queued_events.len() && events.len() < u64::from(body.limit) as usize
MissingContinue(i, queued_events, events, limit) ==
    i < Len(queued_events) /\ Len(events) < limit

\* the request up to the loop: queued_events = body.latest_events.clone(), events = [], i = 0
GmStart ==
    /\ gm.pc = "idle"
    /\ \E sender \in Servers, room_id \in Rooms, in_room \in BOOLEAN, store \in MissingStores,
          latest_events \in {<<"$a">>, <<"$a", "$b">>}, earliest_events \in {{}, {"$b"}},
          limit \in 0 .. MaxLimit :
          LET precheck == MissingPrecheck(sender, room_id, in_room)
          IN  gm' = IF precheck = "ok"
                    THEN [NoMissing EXCEPT !.pc = "loop", !.store = store, !.room_id = room_id,
                                           !.earliest_events = earliest_events, !.limit = limit,
                                           !.queued_events = latest_events]
                    ELSE [NoMissing EXCEPT !.pc = "done", !.response = precheck]
    /\ UNCHANGED notMissing

\* one iteration of the loop (indices from 1: queued_events[i] of the source is
\* queued_events[gm.i + 1]), or its end with Ok(Response { events })
GmStep ==
    /\ gm.pc = "loop"
    /\ IF ~MissingContinue(gm.i, gm.queued_events, gm.events, gm.limit)
       THEN gm' = [gm EXCEPT !.pc = "done", !.response = "Ok"]
       ELSE LET event_id == gm.queued_events[gm.i + 1] IN
            IF event_id \notin DOMAIN gm.store
            THEN gm' = [gm EXCEPT !.i = @ + 1]
            ELSE IF gm.store[event_id].room_id # gm.room_id
            THEN gm' = [gm EXCEPT !.pc = "done", !.response = "InvalidParam: Evil event detected",
                                  !.events = <<>>]
            ELSE IF event_id \in gm.earliest_events
            THEN gm' = [gm EXCEPT !.i = @ + 1]
            ELSE gm' = [gm EXCEPT !.i = @ + 1,
                                  !.queued_events = @ \o gm.store[event_id].prev_events,
                                  !.events = Append(@, event_id)]
    /\ UNCHANGED notMissing

(***************************************************************************)
(* The routes that return events of a room: event, missing events,         *)
(* event auth, state, state ids.  `in_room` is the set of rooms for which  *)
(* server_in_room(sender, room) answers true, `event_room` the room of the *)
(* stored event the request names (NoRoom: not stored), `cached` whether   *)
(* the auth chain of the event is in the auth chain cache.                 *)
(***************************************************************************)
EventRoutes ==
    {"get_event", "get_missing_events", "get_event_authorization", "get_room_state",
     "get_room_state_ids"}

NoEventRead == [route |-> "", sender |-> "", room_id |-> NoRoom, event_room |-> NoRoom,
                response |-> "none", served |-> NoRoom]

notEventRead == <<ingestVars, keysVars, chainVars, sendVars, backoffVars, fj, fd,
                  tls_name_override, mjVars, inviteVars, sjVars, ro, walk, gm, cp, ad>>

Served(result, room) == [response |-> result, served |-> room]

\* get_event_route: the room is the one of the stored event; no acl_check
get_event_route(sender, event_room, in_room) ==
    IF ~allow_federation THEN Served("bad_config", NoRoom)
    ELSE IF event_room = NoRoom THEN Served("NotFound: Event not found.", NoRoom)
    ELSE IF event_room \notin in_room THEN Served("Forbidden: Server is not in room", NoRoom)
    ELSE Served("Ok", event_room)

\* get_missing_events_route with one latest event and a positive limit
get_missing_events_route(sender, room_id, event_room, in_room) ==
    LET precheck == MissingPrecheck(sender, room_id, room_id \in in_room) IN
    IF precheck # "ok" THEN Served(precheck, NoRoom)
    ELSE IF event_room = NoRoom THEN Served("Ok", NoRoom)
    ELSE IF event_room # room_id THEN Served("InvalidParam: Evil event detected", NoRoom)
    ELSE Served("Ok", event_room)

\* get_event_authorization_route: the checks are made for body.room_id, the auth chain is
\* computed for the room of the event
get_event_authorization_route(sender, room_id, event_room, in_room) ==
    IF ~allow_federation THEN Served("bad_config", NoRoom)
    ELSE IF room_id \notin in_room THEN Served("Forbidden: Server is not in room.", NoRoom)
    ELSE IF ~acl_check(sender, room_id) THEN Served("Forbidden", NoRoom)
    ELSE IF event_room = NoRoom THEN Served("NotFound: Event not found.", NoRoom)
    ELSE Served("Ok", event_room)

\* get_room_state_route and get_room_state_ids_route: the state is the one of the event
\* named; get_auth_chain(&body.room_id, [event_id]) compares the rooms unless the chain
\* comes from the cache
get_room_state_route(sender, room_id, event_room, in_room, cached) ==
    IF ~allow_federation THEN Served("bad_config", NoRoom)
    ELSE IF room_id \notin in_room THEN Served("Forbidden: Server is not in room.", NoRoom)
    ELSE IF ~acl_check(sender, room_id) THEN Served("Forbidden", NoRoom)
    ELSE IF event_room = NoRoom THEN Served("NotFound: Pdu state not found.", NoRoom)
    ELSE IF event_room # room_id /\ ~cached THEN Served("Forbidden: Evil event in db", NoRoom)
    ELSE Served("Ok", event_room)

EventRead ==
    /\ \E route \in EventRoutes, sender \in Servers, room_id \in Rooms,
          event_room \in Rooms \cup {NoRoom}, in_room \in SUBSET Rooms, cached \in BOOLEAN :
          LET result ==
                  CASE route = "get_event" -> get_event_route(sender, event_room, in_room)
                    [] route = "get_missing_events" ->
                           get_missing_events_route(sender, room_id, event_room, in_room)
                    [] route = "get_event_authorization" ->
                           get_event_authorization_route(sender, room_id, event_room, in_room)
                    [] OTHER -> get_room_state_route(sender, room_id, event_room, in_room, cached)
          IN  rd' = [route |-> route, sender |-> sender,
                     room_id |-> IF route = "get_event" THEN NoRoom ELSE room_id,
                     event_room |-> event_room, response |-> result.response,
                     served |-> result.served]
    /\ UNCHANGED notEventRead

(***************************************************************************)
(* fetch_join_signing_keys, the pass over the events of the response with  *)
(* get_server_keys_from_cache                                              *)
(***************************************************************************)
MaxJoinPdus == 2

\* an event of the response: its signatures (server -> key ids), and whether
\* bad_event_ratelimiter holds an entry for it whose window is open
JoinPdus == [signatures : JoinSignatures, backing_off : BOOLEAN]

\* globals.signing_keys_for of every server
KeyStores == [KeyServers -> {{}, {"ed25519:1"}, {"ed25519:1", "ed25519:2"}}]

NoCachePass == [pc |-> "idle", pdus |-> <<>>, store |-> <<>>, n |-> 0, servers |-> {},
                pkm |-> <<>>]

notCachePass == <<ingestVars, keysVars, chainVars, sendVars, backoffVars, fj, fd,
                  tls_name_override, mjVars, inviteVars, sjVars, ro, walk, gm, rd, ad>>

\* for (signature_server, signature) in signatures, from the n-th server of the map on
RECURSIVE SignatureLoop(_, _, _, _, _)
SignatureLoop(signatures, n, servers, pkm, store) ==
    IF n > Len(KeyServerList) THEN [servers |-> servers, pkm |-> pkm]
    ELSE LET origin == KeyServerList[n] IN
         IF origin \notin DOMAIN signatures
         THEN SignatureLoop(signatures, n + 1, servers, pkm, store)
         ELSE IF origin \in servers \/ origin \in DOMAIN pkm
         THEN SignatureLoop(signatures, n + 1, servers, pkm, store)
         ELSE SignatureLoop(signatures, n + 1,
                            IF ~contains_all_ids(signatures[origin], store[origin])
                            THEN servers \cup {origin} ELSE servers,
                            MapInsert(pkm, origin, store[origin]), store)

\* get_server_keys_from_cache; its error is dropped by the caller
get_server_keys_from_cache(pdu, servers, pkm, store) ==
    IF pdu.backing_off THEN [servers |-> servers, pkm |-> pkm]
    ELSE SignatureLoop(pdu.signatures, 1, servers, pkm, store)

\* let mut servers = BTreeMap::new(); the map of the caller is empty
CpStart ==
    /\ cp.pc = "idle"
    /\ \E len \in 1 .. MaxJoinPdus : \E state \in [1 .. len -> JoinPdus], store \in KeyStores :
          cp' = [NoCachePass EXCEPT !.pc = "pass", !.pdus = state, !.store = store]
    /\ UNCHANGED notCachePass

\* one event of room_state.state or room_state.auth_chain
CpPdu ==
    /\ cp.pc = "pass"
    /\ IF cp.n = Len(cp.pdus)
       THEN cp' = [cp EXCEPT !.pc = "done"]
       ELSE LET after == get_server_keys_from_cache(cp.pdus[cp.n + 1], cp.servers, cp.pkm,
                                                    cp.store)
            IN  cp' = [cp EXCEPT !.n = @ + 1, !.servers = after.servers, !.pkm = after.pkm]
    /\ UNCHANGED notCachePass

(***************************************************************************)
(* The admin service: the handler task of Admin::start_handler, and        *)
(* create_admin_room and make_user_admin.  Each takes the state mutex of   *)
(* the admin room.                                                         *)
(***************************************************************************)
AdminTasks == {"handler", "create_admin_room", "make_user_admin"}
AdminRoom == "!admins"

\* the holder ids of the tasks, after those of the make_join requests
TaskHolder(t) ==
    Cardinality(MjCalls) + (CASE t = "handler" -> 1
                              [] t = "create_admin_room" -> 2
                              [] t = "make_user_admin" -> 3)

NoAdmin == [pc |-> [t \in AdminTasks |-> "idle"], guard |-> NoCall, command |-> "none"]

notAdmin == <<ingestVars, keysVars, chainVars, sendVars, backoffVars, fj, fd, tls_name_override,
              mj, inviteVars, sjVars, ro, walk, gm, rd, cp>>

\* mutant: the write guard of the registry lives as long as the mutex handle
GuardAtStatementEnd_Kept(holder) == holder

\* the guard returned by roomid_mutex_state.write().unwrap() is a temporary of the `let
\* mutex_state = Arc::clone(..);` statement and is dropped at its end
GuardAtStatementEnd(holder) == NoCall

\* Some(event) = receiver.recv(): SendMessage(content) is posted as it is,
\* ProcessMessage(room_message) starts process_admin_message
HandlerRecv ==
    /\ ad.pc["handler"] = "idle"
    /\ \E event \in {"SendMessage", "ProcessMessage"} :
          ad' = [ad EXCEPT !.pc["handler"] = IF event = "ProcessMessage" THEN "execute"
                                             ELSE "entry",
                           !.command = IF event = "ProcessMessage" THEN "running" ELSE "none"]
    /\ UNCHANGED <<notAdmin, roomid_mutex_state>>

\* process_admin_message(room_message).await returns the reply
HandlerExecute ==
    /\ ad.pc["handler"] = "execute"
    /\ ad' = [ad EXCEPT !.pc["handler"] = "entry", !.command = "finished"]
    /\ UNCHANGED <<notAdmin, roomid_mutex_state>>

\* create_admin_room or make_user_admin is called
TaskCall(t) ==
    /\ t # "handler"
    /\ ad.pc[t] = "idle"
    /\ ad' = [ad EXCEPT !.pc[t] = "entry"]
    /\ UNCHANGED <<notAdmin, roomid_mutex_state>>

\* roomid_mutex_state.write().unwrap().entry(room_id).or_default()
TaskEntry(t) ==
    /\ ad.pc[t] = "entry"
    /\ ad.guard = NoCall
    /\ roomid_mutex_state' = MutexEntry(roomid_mutex_state, AdminRoom)
    /\ ad' = [ad EXCEPT !.pc[t] = "clone", !.guard = TaskHolder(t)]
    /\ UNCHANGED notAdmin

\* the end of the statement `let mutex_state = Arc::clone(..);`
TaskClone(t) ==
    /\ ad.pc[t] = "clone"
    /\ ad' = [ad EXCEPT !.pc[t] = "lock", !.guard = GuardAtStatementEnd(TaskHolder(t))]
    /\ UNCHANGED <<notAdmin, roomid_mutex_state>>

\* let state_lock = mutex_state.lock().await
TaskLock(t) ==
    /\ ad.pc[t] = "lock"
    /\ MutexFree(roomid_mutex_state, AdminRoom)
    /\ roomid_mutex_state' = MutexLock(roomid_mutex_state, AdminRoom, TaskHolder(t))
    /\ ad' = [ad EXCEPT !.pc[t] = "held"]
    /\ UNCHANGED notAdmin

\* the events are built and appended without an await; drop(state_lock), or the end of
\* the function
TaskUnlock(t) ==
    /\ ad.pc[t] = "held"
    /\ roomid_mutex_state' = MutexUnlock(roomid_mutex_state, AdminRoom)
    /\ ad' = [ad EXCEPT !.pc[t] = "idle",
                        !.command = IF t = "handler" THEN "none" ELSE @]
    /\ UNCHANGED notAdmin

\* make_join beside the admin tasks: its registry access waits for the write guard
GuardedMjStart(c) == ad.guard = NoCall /\ MjStart(c)

RoutesIdle ==
    /\ ro = NoRead
    /\ walk = NoWalk
    /\ gm = NoMissing
    /\ rd = NoEventRead
    /\ cp = NoCachePass
    /\ ad = NoAdmin
    /\ mj = [c \in MjCalls |-> NoMj]
    /\ roomid_mutex_state = [r \in {} |-> NoCall]
    /\ inv = NoInvite
    /\ invite_membership = {}
    /\ sj = [c \in SjCalls |-> NoSj]
    /\ room_states = [r \in Rooms |-> <<{"$create"}>>]
    /\ outbound = <<>>

(***************************************************************************)
(*                            Specifications                               *)
(***************************************************************************)
vars == <<notRoutes, mjVars, inviteVars, sjVars>>

NotChainIdle ==
    IngestInit /\ KeysInit /\ SendInit /\ BackoffInit /\ JoinIdle /\ ResolveIdle /\ RoutesIdle

Idle == NotChainIdle /\ ChainIdle

\* Spec: one inbound transaction
TxnCalls == {1}

Init == allow_federation \in BOOLEAN /\ Idle

Next ==
    \E c \in TxnCalls :
        \/ TxnStart(c, Servers)
        \/ TxnPdu(c, PduInputs, MaxPdus)
        \/ TxnLock(c)
        \/ TxnAdmit(c)
        \/ TxnPdusEnd(c)
        \/ TxnEdu(c, EduInputs, MaxEdus)
        \/ TxnD2DMessage(c)
        \/ TxnD2DRecord(c)
        \/ TxnEdusEnd(c)

Spec == Init /\ [][Next]_vars

\* SpecEdus: one inbound transaction of few PDUs, for the EDU handlers
NextEdus ==
    \E c \in TxnCalls :
        \/ TxnStart(c, Servers)
        \/ TxnPdu(c, PduInputs, MaxAdmitPdus)
        \/ TxnLock(c)
        \/ TxnAdmit(c)
        \/ TxnPdusEnd(c)
        \/ TxnEdu(c, EduInputs, MaxEdus)
        \/ TxnD2DMessage(c)
        \/ TxnD2DRecord(c)
        \/ TxnEdusEnd(c)

SpecEdus == Init /\ [][NextEdus]_vars

\* SpecAdmit: concurrent transactions (their EDU lists empty) and joins
NextAdmit ==
    \E c \in Calls :
        \/ TxnStart(c, Servers)
        \/ TxnPdu(c, AdmitPduInputs, MaxAdmitPdus)
        \/ TxnLock(c)
        \/ TxnAdmit(c)
        \/ TxnPdusEnd(c)
        \/ TxnEdusEnd(c)
        \/ JoinStart(c, Servers)
        \/ JoinLock(c)
        \/ JoinAdmit(c)
        \/ JoinFinish(c)

SpecAdmit == Init /\ [][NextAdmit]_vars

\* SpecD2D: a transaction with one DirectToDevice EDU and a second one, sent again or at
\* the same time; each message of an EDU is for one named device
RetryCalls == {1, 2}

D2DRetryInputs ==
    {[NoEdu EXCEPT !.kind = "direct", !.key = k, !.msgs = m] :
        k \in D2DKeys,
        m \in {<<[dev |-> "d1", valid |-> TRUE]>>}
                \cup {<<[dev |-> "d1", valid |-> TRUE], [dev |-> "d2", valid |-> v]>> :
                         v \in BOOLEAN}}

NextD2D ==
    \E c \in RetryCalls :
        \/ TxnStart(c, {"good.example"})
        \/ TxnPdusEnd(c)
        \/ TxnEdu(c, D2DRetryInputs, 1)
        \/ TxnD2DMessage(c)
        \/ TxnD2DRecord(c)
        \/ TxnEdusEnd(c)

SpecD2D == Init /\ [][NextD2D]_vars

\* SpecLocks: one transaction or join beside two make_join requests
NextLocks ==
    \/ \E c \in TxnCalls :
        \/ TxnStart(c, Servers)
        \/ TxnPdu(c, AdmitPduInputs, MaxAdmitPdus)
        \/ TxnLock(c)
        \/ TxnAdmit(c)
        \/ TxnPdusEnd(c)
        \/ TxnEdusEnd(c)
        \/ JoinStart(c, Servers)
        \/ JoinLock(c)
        \/ JoinAdmit(c)
        \/ JoinFinish(c)
    \/ \E c \in MjCalls :
        \/ MjStart(c)
        \/ MjLock(c)
        \/ MjBuild(c)

SpecLocks == Init /\ [][NextLocks]_vars

\* SpecInvite: invite requests, one after the other
NextInvite == CreateInvite

SpecInvite == Init /\ [][NextInvite]_vars

\* SpecSendJoin: two send_join requests with the room state and the outbound queue
NextSendJoin ==
    \E c \in SjCalls :
        \/ SjStart(c)
        \/ SjLock(c)
        \/ SjAdmit(c)
        \/ SjFinish(c)

SpecSendJoin == Init /\ [][NextSendJoin]_vars

\* SpecSendJoinFair: the same, every request that can take a step takes it in the end
SpecSendJoinFair == SpecSendJoin /\ \A c \in SjCalls :
    WF_vars(SjStart(c) \/ SjLock(c) \/ SjAdmit(c) \/ SjFinish(c))

\* SpecDisabled: a request to each entry point while federation is switched off
InitDisabled == allow_federation = FALSE /\ Idle

NextDisabled ==
    \/ \E c \in TxnCalls :
        \/ TxnStart(c, Servers)
        \/ SrStart(c)
        \/ MjStart(c)
        \/ SjStart(c)
    \/ CreateInvite
    \/ ReadRoute

SpecDisabled == InitDisabled /\ [][NextDisabled]_vars

\* SpecKeys: concurrent fetch_signing_keys calls, each caller calling once
InitKeys == allow_federation = TRUE /\ Idle

NextKeys ==
    \E k \in KeyCalls :
        \/ FkStart(k)
        \/ FkLookup(k)
        \/ FkCreate(k)
        \/ FkAcquire(k)
        \/ FkCheck(k)
        \/ FkOriginAnswer(k)
        \/ FkNotaryAnswer(k)
        \/ FkRecord(k)

SpecKeys == InitKeys /\ [][NextKeys]_vars

\* SpecKeysAll: fetch_signing_keys calls while fetch_join_signing_keys runs
NextKeysAll == NextKeys \/ FjStart \/ FjBatchAnswer \/ FjDirectAnswer

SpecKeysAll == InitKeys /\ [][NextKeysAll]_vars

\* SpecJoinKeys: fetch_join_signing_keys with two trusted servers, call after call
NextJoinKeys ==
    \/ FjStartWith(JoinTrusted)
    \/ FjBatchAnswerWith(JoinTrusted)
    \/ FjDirectAnswer
    \/ FjAgain

SpecJoinKeys == InitKeys /\ [][NextJoinKeys]_vars

\* SpecResolve: find_actual_destination, called again and again; every request it makes
\* is answered
NextResolve == FdStart \/ FdWellKnown \/ FdSrv \/ FdLookupIp \/ FdAgain

SpecResolve ==
    InitKeys /\ [][NextResolve]_vars /\ WF_vars(FdWellKnown \/ FdSrv \/ FdLookupIp)

\* SpecKeysSeq: one caller that calls fetch_signing_keys again and again while time passes
KeySeqCalls == {1}

NextKeysSeq ==
    \/ \E k \in KeySeqCalls :
        \/ FkStart(k)
        \/ FkLookup(k)
        \/ FkCreate(k)
        \/ FkAcquire(k)
        \/ FkCheck(k)
        \/ FkOriginAnswer(k)
        \/ FkNotaryAnswer(k)
        \/ FkRecord(k)
        \/ FkAgain(k)
    \/ Tick

SpecKeysSeq == InitKeys /\ [][NextKeysSeq]_vars

\* SpecChainCold: one get_auth_chain call on an empty cache, over every event store
InitChainCold == allow_federation = TRUE /\ NotChainIdle /\ ChainInit(AllStores)

NextChainCold == ChainCall(FALSE)

SpecChainCold == InitChainCold /\ [][NextChainCold]_vars

\* SpecChainGrow: get_auth_chain calls while events are admitted to the store of one room
GrowStores == {store \in AcyclicStores : \A e \in DOMAIN store : store[e].room_id = "!open"}

InitChainGrow == allow_federation = TRUE /\ NotChainIdle /\ ChainInit(GrowStores)

\* an event that was missing is admitted; its id is the hash of its content, so no event
\* reaches itself afterwards
StoreEvent ==
    /\ \E e \in ChainEvents \ DOMAIN pdus, auth_events \in SUBSET ChainEvents :
          /\ MapInsert(pdus, e, [room_id |-> "!open", auth_events |-> auth_events]) \in GrowStores
          /\ pdus' = MapInsert(pdus, e, [room_id |-> "!open", auth_events |-> auth_events])
    /\ UNCHANGED <<notChain, auth_chain_cache, chain_call, shorteventid>>

GrowCall ==
    /\ \E starting_events \in SUBSET ChainEvents :
       \E r \in {get_auth_chain("!open", starting_events, pdus, auth_chain_cache, "asc")} :
        /\ auth_chain_cache' = r.cache
        /\ chain_call' = [room_id |-> "!open", starting_events |-> starting_events,
                          cold |-> auth_chain_cache = [k \in {} |-> {}],
                          status |-> IF r.ok THEN "Ok" ELSE "Forbidden",
                          chain |-> r.chain]
    /\ UNCHANGED <<notChain, pdus, shorteventid>>

NextChainGrow == GrowCall \/ StoreEvent

SpecChainGrow == InitChainGrow /\ [][NextChainGrow]_vars

\* SpecWalk: one get_auth_chain_inner call, iteration by iteration, over every store
\* of one room, cycles and self-references included
WalkStores == {store \in AllStores : \A e \in DOMAIN store : store[e].room_id = "!open"}

InitWalk == allow_federation = TRUE /\ NotChainIdle /\ ChainInit(WalkStores)

NextWalk == WalkStart \/ WalkStep

SpecWalk == InitWalk /\ [][NextWalk]_vars /\ WF_vars(WalkStep)

\* SpecCachePass: the cache pass of fetch_join_signing_keys over the events of a response
NextCachePass == CpStart \/ CpPdu

SpecCachePass == InitKeys /\ [][NextCachePass]_vars

\* SpecAdminLocks: the tasks of the admin service beside one make_join request and one
\* transaction
NextAdminLocks ==
    \/ HandlerRecv
    \/ HandlerExecute
    \/ \E t \in AdminTasks :
        \/ TaskCall(t)
        \/ TaskEntry(t)
        \/ TaskClone(t)
        \/ TaskLock(t)
        \/ TaskUnlock(t)
    \/ GuardedMjStart(1)
    \/ MjLock(1)
    \/ MjBuild(1)
    \/ TxnStart(1, {"good.example"})
    \/ TxnPdu(1, AdmitPduInputs, MaxAdmitPdus)
    \/ TxnLock(1)
    \/ TxnAdmit(1)
    \/ TxnPdusEnd(1)
    \/ TxnEdusEnd(1)

SpecAdminLocks == InitKeys /\ [][NextAdminLocks]_vars

\* SpecEventReads: requests for events of a room, with the federation switch on
SpecEventReads == InitKeys /\ [][EventRead]_vars

\* SpecMissing: one get_missing_events request, iteration by iteration, over every store
NextMissing == GmStart \/ GmStep

SpecMissing == InitKeys /\ [][NextMissing]_vars /\ WF_vars(GmStep)

\* SpecChain: get_auth_chain calls, one after another, over the stores a server can build
InitChain == allow_federation = TRUE /\ NotChainIdle /\ ChainInit(AcyclicStores)

NextChain == ChainCall(TRUE)

SpecChain == InitChain /\ [][NextChain]_vars

\* SpecBuckets: one get_auth_chain call on an empty cache, over the stores a server can
\* build and every short id table
InitBuckets ==
    /\ allow_federation = TRUE /\ NotChainIdle
    /\ shorteventid \in ShortTables
    /\ pdus \in AcyclicStores
    /\ auth_chain_cache = [k \in {} |-> {}]
    /\ chain_call = [room_id |-> NoRoom, starting_events |-> {}, cold |-> FALSE,
                     status |-> "none", chain |-> {}]

SpecBuckets == InitBuckets /\ [][NextChainCold]_vars

\* SpecSend: concurrent send_request calls
NextSend ==
    \E c \in SendCalls :
        \/ SrStart(c)
        \/ SrResolve(c)
        \/ SrRespond(c)

SpecSend == Init /\ [][NextSend]_vars

\* SpecBackoff: the windows of a signature entry and an event entry as failures add up
NextBackoff == SignatureFailure \/ EventFailure

SpecBackoff == InitKeys /\ [][NextBackoff]_vars

(***************************************************************************)
(*                              Properties                                 *)
(***************************************************************************)
IsTxn(c) == req[c].kind = "txn"

\* requests inside handle_incoming_pdu for a room
Admitting(room) == {c \in Calls : pc[c] \in {"admit", "jadmit"} /\ cur_room[c] = room}

\* PDUs of the transaction whose loop iteration has run to its end
Processed(c) ==
    1 .. (IF pc[c] \in {"lock", "admit"} \/ response[c] = "Forbidden"
          THEN Len(pdu_seen[c]) - 1 ELSE Len(pdu_seen[c]))

\* C1: for every room at most one request is inside handle_incoming_pdu at any time,
\* whatever the interleaving of send_transaction and send_join requests; and a request
\* waiting for the mutex of a room is held up only by an admission for that same room.
C1_AdmissionExclusive ==
    /\ \A r \in Rooms : Cardinality(Admitting(r)) <= 1
    /\ \A c \in Calls :
          (pc[c] \in {"lock", "jlock"} /\ Admitting(cur_room[c]) = {})
              => ENABLED (TxnLock(c) \/ JoinLock(c))

\* a transaction and a join admit for different rooms at the same time
C1_Witness ==
    \E c1, c2 \in Calls :
        /\ pc[c1] = "admit" /\ pc[c2] = "jadmit"
        /\ cur_room[c1] # cur_room[c2]

C7_DenialFailsOnlyThatPdu ==
    \A c \in Calls : IsTxn(c) => response[c] # "Forbidden"

\* C8 as stated: a failure while applying one EDU never makes send_transaction return
\* an error; the remaining EDUs are dispatched and the result map is returned.
C8_EduFailureIsolated ==
    \A c \in Calls :
        IsTxn(c) => response[c] \notin {"Err: storage", "Err: Event is invalid"}

C2_OneFetchPerServer ==
    /\ \A s \in KeyServers : Cardinality(PastPermit(s)) <= 1
    /\ \A k \in Querying : fk_permit[k]
    /\ \A k \in KeyCalls :
          fk_pc[k] \in {"acquire", "acquire_new", "check", "origin", "notary"}
              => /\ fk_origin[k] \in DOMAIN servername_ratelimiter
                 /\ fk_sem[k] = servername_ratelimiter[fk_origin[k]]
    /\ \A x \in DOMAIN sem_permits :
          sem_permits[x] + Cardinality({k \in KeyCalls : fk_permit[k] /\ fk_sem[k] = x}) = 1

\* two first-time callers raced: the second took the write arm and found the semaphore of
\* the first, which is querying the origin while the second waits
C2_Witness ==
    \E k1, k2 \in KeyCalls :
        /\ k1 # k2
        /\ fk_pc[k1] = "origin" /\ fk_permit[k1]
        /\ fk_pc[k2] = "acquire_new"
        /\ fk_origin[k1] = fk_origin[k2]
        /\ fk_sem[k2] = <<fk_origin[k1], k1>>

\* C10: a call whose required ids are all in the stored keys of the server returns Ok from
\* the local check, whatever the backoff ledger holds
C10_CachedKeysBeforeBackoff ==
    [][\A k \in KeySeqCalls :
          (FkCheck(k) /\ contains_all_ids(fk_ids[k], signing_keys[fk_origin[k]]))
              => fk_response'[k] = "Ok"]_vars

\* the stored events a call for `events` visits that are stored with another room
EvilEvents(store, room_id, events) ==
    {e \in (events \cup Reachable(store, events)) \cap DOMAIN store : store[e].room_id # room_id}

\* C3: a get_auth_chain call on an empty cache that returns a chain returns the events
\* reachable from the starting events in one or more auth_events steps through stored
\* events, so a starting event is in it only if reachable from a starting event; the call
\* fails exactly when a visited event is stored with another room
C3_ColdChainIsReachable ==
    (chain_call.cold /\ chain_call.status # "none")
        => /\ chain_call.status = "Ok"
                => chain_call.chain = Reachable(pdus, chain_call.starting_events)
           /\ chain_call.status = "Forbidden"
                <=> EvilEvents(pdus, chain_call.room_id, chain_call.starting_events) # {}

\* a cold call whose starting events are: one that reaches itself (in the chain), one that
\* nothing reaches (not in the chain), and whose chain holds an event that is not stored
C3_Witness ==
    /\ chain_call.cold /\ chain_call.status = "Ok"
    /\ chain_call.starting_events \cap chain_call.chain # {}
    /\ chain_call.starting_events \ chain_call.chain # {}
    /\ chain_call.chain \ DOMAIN pdus # {}

\* C4: every get_auth_chain call returns what the same call returns on an empty cache,
\* for either order of traversal
C4_SameAsColdCache ==
    chain_call.status # "none"
        => \A order \in Orders :
              LET cold == get_auth_chain(chain_call.room_id, chain_call.starting_events,
                                         pdus, [k \in {} |-> {}], order)
              IN  /\ (chain_call.status = "Ok") = cold.ok
                  /\ cold.ok => chain_call.chain = cold.chain

\* C5: every entry of the destination cache is a (destination, host) pair with which some
\* send_request to that server received status 200 and a decodable body; the cache is
\* written by no step other than such a response to a call that found no cached entry
C5_CacheOnlyVerified ==
    /\ [](\A s \in DOMAIN actual_destination_cache :
             <<s, actual_destination_cache[s]>> \in sr_verified)
    /\ [][\/ actual_destination_cache' = actual_destination_cache
          \/ \E c \in SendCalls :
                /\ SrRespondWith(c, "200_decodable")
                /\ write_destination_to_cache[c]]_vars

\* a call found the entry another call had cached, used it and failed: the entry stands
C5_Witness ==
    \E c, d \in SendCalls :
        /\ sr_pc[c] = "done" /\ write_destination_to_cache[c] /\ sr_response[c] = "Ok"
        /\ sr_pc[d] = "done" /\ ~write_destination_to_cache[d]
        /\ sr_response[d] = "Err: Server returned bad 200 response."
        /\ sr_destination[d] = sr_destination[c]
        /\ sr_actual[d] = sr_actual[c]
        /\ actual_destination_cache[sr_destination[c]] = sr_actual[c]

\* C11: a call whose required ids are not all stored, made while the ledger entry of its
\* id set is within its window, returns the backing-off error from the local check: no
\* query is sent, and the ledger and the key store stay as they are
C11_BackoffFailsFast ==
    [][\A k \in KeySeqCalls :
          (/\ FkCheck(k)
           /\ ~contains_all_ids(fk_ids[k], signing_keys[fk_origin[k]])
           /\ BackingOff(bad_signature_ratelimiter, fk_ids[k], now))
              => /\ fk_response'[k] = "Err: still backing off"
                 /\ fk_pc'[k] = "done"
                 /\ bad_signature_ratelimiter' = bad_signature_ratelimiter
                 /\ signing_keys' = signing_keys]_vars

\* a call failed fast inside the window of the second attempt, 30 seconds after it
C11_Witness ==
    \E k \in KeySeqCalls :
        /\ fk_pc[k] = "done" /\ fk_response[k] = "Err: still backing off"
        /\ ~contains_all_ids(fk_ids[k], signing_keys[fk_origin[k]])
        /\ fk_ids[k] \in DOMAIN bad_signature_ratelimiter
        /\ bad_signature_ratelimiter[fk_ids[k]].tries = 2
        /\ now - bad_signature_ratelimiter[fk_ids[k]].time = BackoffBase

\* C12: the window of either ledger never exceeds 24 hours, is never shorter than the
\* window of the attempt before, and is longer than it while that one is below the cap
C12_WindowMonotoneCapped ==
    /\ sig_window.current <= BackoffCap
    /\ sig_window.before <= sig_window.current
    /\ (sig_tries >= 1 /\ sig_window.before < BackoffCap) => sig_window.before < sig_window.current
    /\ ev_window.current <= EventBackoffCap
    /\ ev_window.before <= ev_window.current
    /\ (ev_tries >= 1 /\ ev_window.before < EventBackoffCap) => ev_window.before < ev_window.current

\* the signature entry has just reached the cap (30 * 54 * 54 seconds is more than a day),
\* the event entry is at its third attempt, below it
C12_Witness ==
    /\ sig_window.current = BackoffCap /\ sig_window.before < BackoffCap
    /\ ev_tries = 3 /\ ev_window.current = 270 /\ ev_window.before = 120

\* C13: the bad-signature ledger changes only in the step of a call that asked the origin
\* and every trusted notary and still lacks a required id: the entry of its id set then
\* counts one attempt more (one if there was none), no other entry changes, and the call
\* returns the error; no step removes an entry or lowers an attempt count
C13_LedgerOnlyOnExhaustion ==
    [][/\ bad_signature_ratelimiter' # bad_signature_ratelimiter
            => \E k \in KeyCalls :
                  /\ fk_pc[k] = "record" /\ fk_pc'[k] = "done"
                  /\ fk_notary[k] = Len(TrustedServers)
                  /\ ~contains_all_ids(fk_ids[k], fk_result[k])
                  /\ fk_response'[k] = "Err: failed to find public key"
                  /\ DOMAIN bad_signature_ratelimiter' =
                        DOMAIN bad_signature_ratelimiter \cup {fk_ids[k]}
                  /\ bad_signature_ratelimiter'[fk_ids[k]].tries =
                        IF fk_ids[k] \in DOMAIN bad_signature_ratelimiter
                        THEN bad_signature_ratelimiter[fk_ids[k]].tries + 1
                        ELSE 1
                  /\ \A i \in DOMAIN bad_signature_ratelimiter \ {fk_ids[k]} :
                        bad_signature_ratelimiter'[i] = bad_signature_ratelimiter[i]
       /\ \A i \in DOMAIN bad_signature_ratelimiter :
             /\ i \in DOMAIN bad_signature_ratelimiter'
             /\ bad_signature_ratelimiter'[i].tries >= bad_signature_ratelimiter[i].tries]_vars

\* a call has just failed for the second time on its id set, after its window had passed,
\* while a stored key of the server was not enough
C13_Witness ==
    \E k \in KeyCalls :
        /\ fk_pc[k] = "done" /\ fk_response[k] = "Err: failed to find public key"
        /\ fk_ids[k] \in DOMAIN bad_signature_ratelimiter
        /\ bad_signature_ratelimiter[fk_ids[k]] = [time |-> now, tries |-> 2]
        /\ now > 0
        /\ signing_keys[fk_origin[k]] # {}

\* C14: for every server, the requests on the network that ask for its keys, those of
\* fetch_signing_keys calls and those of fetch_join_signing_keys together, are at most one
C14_OneQueryPerServer ==
    \A s \in KeyServers :
        Cardinality({k \in Querying : fk_origin[k] = s})
            + (IF s \in JoinQuerying THEN 1 ELSE 0) <= 1

\* C15: every call of find_actual_destination whose requests are answered returns, with a
\* destination and a host header and never an error; for a server name without address and
\* port, when .well-known gave nothing and the SRV query gave nothing, the destination is
\* that name with port 8448
C15_ResolverTotal ==
    /\ [](fd.pc = "done" =>
            /\ \A dest \in {fd.actual_destination, fd.host} :
                  /\ dest.host # NoName
                  /\ dest.kind = "Literal" => dest.port \in 0 .. 65535
                  /\ dest.kind = "Named" => Len(dest.port) >= 2 /\ dest.port[1] = ":")
    /\ [](fd.pc = "done" /\ fd.requests = <<"well_known", "srv">> /\ fd.delegated = NoName
            => fd.actual_destination = Named(fd.destination, <<":", ToString(DefaultPort)>>))
    /\ (fd.pc \in {"well_known", "srv", "lookup_ip"} ~> fd.pc = "done")

\* example.com: .well-known failed, no SRV record
C15_Witness ==
    /\ fd.pc = "done" /\ fd.destination = <<"example.com">>
    /\ fd.requests = <<"well_known", "srv">> /\ fd.delegated = NoName
    /\ fd.actual_destination = Named(<<"example.com">>, <<":", "8448">>)
    /\ fd.host = Named(<<"example.com">>, <<":", "8448">>)

\* C16: a call for a server name that is an IP address, with or without port, or that has
\* a port, returns in its first step: without a .well-known request, an SRV query or an IP
\* lookup, and with tls_name_override as it was
C16_DirectNamesNoLookup ==
    [][(/\ fd.pc = "idle" /\ fd'.pc # "idle"
        /\ \/ parse_IpAddr(fd'.destination)
           \/ parse_SocketAddr(fd'.destination) # {}
           \/ find(fd'.destination) # 0)
            => /\ fd'.pc = "done"
               /\ fd'.requests = <<>>
               /\ tls_name_override' = tls_name_override]_vars

\* 1.1.1.1 is resolved while an override recorded by an earlier call is in the map
C16_Witness ==
    /\ fd.pc = "done" /\ fd.destination = <<"1.1.1.1">>
    /\ fd.requests = <<>>
    /\ fd.actual_destination = Literal(<<"1.1.1.1">>, DefaultPort)
    /\ DOMAIN tls_name_override # {}

\* C17: .well-known delegated to a name H without address and port and the SRV query for H
\* gave a record with port P: the call returns destination (H, ":P") and host header
\* (H, ":8448"), whether the IP lookup of the SRV target succeeds or not; it sets the
\* override of H to (the addresses, P) when the lookup succeeds and changes no override
\* when it fails
C17_DelegatedSrvHit ==
    [][(fd.pc = "lookup_ip" /\ fd.delegated # NoName /\ fd' # fd)
            => /\ fd'.pc = "done"
               /\ fd'.actual_destination = Named(fd.delegated, fd.srv.port)
               /\ fd'.host = Named(fd.delegated, <<":", ToString(DefaultPort)>>)
               /\ \E P \in {443, DefaultPort} :
                     /\ fd.srv.port = <<":", ToString(P)>>
                     /\ tls_name_override' =
                           IF fd'.lookup_ip # {}
                           THEN MapInsert(tls_name_override, fd.delegated,
                                          [ips |-> fd'.lookup_ip, port |-> P])
                           ELSE tls_name_override]_vars

\* delegated.example, SRV port 443, the target does not resolve: no override of the name
C17_Witness ==
    /\ fd.pc = "done" /\ fd.delegated = <<"delegated.example">>
    /\ fd.srv.port = <<":", "443">> /\ fd.lookup_ip = {}
    /\ fd.actual_destination = Named(<<"delegated.example">>, <<":", "443">>)
    /\ fd.host = Named(<<"delegated.example">>, <<":", "8448">>)
    /\ <<"delegated.example">> \notin DOMAIN tls_name_override

\* C18: for the server name of the call and for the name .well-known delegated to:
\* get_ip_with_port gives an IP literal without port (a.b.c.d, x:y::, [x::y]) its address
\* with port 8448, an ip:port literal its address and port, and any other text None;
\* add_port_to_hostname gives a text without colon (text, ":8448") and host:port
\* (host, ":port")
C18_DefaultPortRule ==
    \A s \in {fd.destination, fd.delegated} \ {NoName} :
        LET n == Len(s)
            V4 == n >= 1 /\ s[1] \in {"1.1.1.1", "10.0.0.1"}
            V6(t) == /\ \A i \in 1 .. Len(t) : t[i] \in {"dead", "beef", ":"}
                     /\ Cardinality({i \in 1 .. Len(t) : t[i] = ":"}) >= 2
            Bracketed == n >= 3 /\ s[1] = "[" /\ V6(SubSeq(s, 2, n - 1)) /\ s[n] = "]"
            BracketedPort == n >= 5 /\ s[1] = "[" /\ V6(SubSeq(s, 2, n - 3))
                                /\ s[n - 2] = "]" /\ s[n - 1] = ":"
        IN  /\ get_ip_with_port(s) =
                  IF V4 /\ n = 1 THEN {Literal(s, DefaultPort)}
                  ELSE IF V6(s) THEN {Literal(s, DefaultPort)}
                  ELSE IF Bracketed THEN {Literal(SubSeq(s, 2, n - 1), DefaultPort)}
                  ELSE IF V4 /\ n = 3 /\ s[2] = ":"
                       THEN {Literal(<<s[1]>>, p) : p \in parse_u16(<<s[3]>>)}
                  ELSE IF BracketedPort
                       THEN {Literal(SubSeq(s, 2, n - 3), p) : p \in parse_u16(<<s[n]>>)}
                  ELSE {}
            /\ (\A i \in 1 .. n : s[i] # ":")
                  => add_port_to_hostname(s) = Named(s, <<":", ToString(DefaultPort)>>)
            /\ n = 3 /\ s[2] = ":"
                  => add_port_to_hostname(s) = Named(<<s[1]>>, <<":", s[3]>>)

\* C19: a get_auth_chain call fails with Forbidden whenever a starting event, or a stored
\* event reachable from one, is stored with a room other than the room of the call,
\* whatever earlier calls left in the cache
C19_OtherRoomIsForbidden ==
    (/\ chain_call.status # "none"
     /\ EvilEvents(pdus, chain_call.room_id, chain_call.starting_events) # {})
        => chain_call.status = "Forbidden"

\* C20: whatever short ids the events have, and so however the starting events fall into
\* buckets, a get_auth_chain call returns what walking from each starting event alone,
\* without buckets, gives: it succeeds exactly when every such walk succeeds, and its chain
\* is then the union of the chains of the walks
C20_BucketsAreSound ==
    chain_call.status # "none"
        => \A order \in Orders :
              LET walks == {get_auth_chain_inner(chain_call.room_id, e, pdus, order) :
                                e \in chain_call.starting_events}
              IN  /\ (chain_call.status = "Ok") = (\A w \in walks : w.ok)
                  /\ chain_call.status = "Ok"
                        => chain_call.chain =
                              {get_eventid_from_short(sid) : sid \in UNION {w.found : w \in walks}}

\* three starting events, two in one bucket and the third in another, with a chain
C20_Witness ==
    /\ chain_call.status = "Ok" /\ chain_call.chain # {}
    /\ chain_call.starting_events = ChainEvents
    /\ Cardinality({ShortOf[e] % NUM_BUCKETS : e \in ChainEvents}) = 2
    /\ \E e \in ChainEvents : ShortOf[e] >= 2 * NUM_BUCKETS

\* C22: cross-signing keys are set only for users whose server is the authenticated sender
\* of the transaction; a SigningKeyUpdate EDU for a user of another server changes nothing
\* and does not end the transaction
C22_SigningKeysOfSenderOnly ==
    /\ [](\A u \in cross_signing_keys : \A c \in TxnCalls :
            \/ u = "@a:good.example" /\ req[c].sender = "good.example"
            \/ u = "@b:evil.example" /\ req[c].sender = "evil.example")
    /\ [][\A c \in TxnCalls :
            (pc[c] = "edus" /\ edu_count'[c] = edu_count[c] + 1) =>
                \A u \in EduUsers, flag \in BOOLEAN :
                    ((u = "@a:good.example") # (req[c].sender = "good.example")
                     /\ \E fail \in BOOLEAN :
                           TxnEduWith(c, Edu("signing_key", u, {}, flag), fail, MaxEdus))
                        => /\ UNCHANGED <<eduState, response>>
                           /\ pc'[c] = "edus"]_vars

\* a transaction of evil.example set the keys of its own user and ended well
C22_Witness ==
    \E c \in TxnCalls :
        /\ req[c].sender = "evil.example"
        /\ cross_signing_keys = {"@b:evil.example"}
        /\ edu_count[c] = MaxEdus
        /\ response[c] = "Ok"

\* C21: a request holds a room's federation mutex only between the return of its lock()
\* and the end of its admission call, and a room's state mutex only while make_join reads
\* the room and builds the template: a request that has returned, with Ok or with any
\* error, holds no mutex, and neither does one that is between two PDUs, in its EDU loop,
\* or assembling state and auth chain and forwarding after a join
C21_LocksOnlyForAdmission ==
    /\ \A c \in TxnCalls :
          pc[c] \in {"idle", "pdus", "lock", "edus", "d2d", "jlock", "jstate", "done"}
              => \A r \in DOMAIN roomid_mutex_federation : roomid_mutex_federation[r] # c
    /\ \A c \in MjCalls :
          mj[c].pc \in {"idle", "lock", "done"}
              => \A r \in DOMAIN roomid_mutex_state : roomid_mutex_state[r] # c

\* a send_join whose admission failed and a make_join that ended in an error under the
\* lock have both returned; the mutexes they held exist and are free
C21_Witness ==
    \E c \in TxnCalls, m \in MjCalls :
        /\ pc[c] = "done" /\ req[c].kind = "join" /\ response[c] = "InvalidParam"
        /\ req[c].room \in DOMAIN roomid_mutex_federation
        /\ roomid_mutex_federation[req[c].room] = NoCall
        /\ mj[m].pc = "done" /\ mj[m].response = "Unknown: restricted"
        /\ roomid_mutex_state[mj[m].room] = NoCall

\* C23: a make_join request that passed the checks for an existing, permitted room whose
\* join rules are not restricted, and whose ver list lacks the version of the room, returns
\* IncompatibleRoomVersion; it builds no event, the states of the room are as before, and
\* it leaves the state mutex of the room free
C23_IncompatibleVersionNoMutation ==
    [][\A c \in MjCalls :
          (/\ mj[c].pc = "build" /\ mj'[c].pc = "done"
           /\ mj'[c].join_rule \in {"none", "public"}
           /\ RoomVersion(mj[c].room) \notin mj[c].ver)
              => /\ mj'[c].response = "IncompatibleRoomVersion"
                 /\ ~mj'[c].built
                 /\ UNCHANGED <<room_states, outbound, invite_membership>>
                 /\ roomid_mutex_state'[mj[c].room] = NoCall]_vars

\* a make_join for room !open (version 9) with ver = [6] was refused while the other
\* request waits for the state mutex of that room
C23_Witness ==
    \E c, d \in MjCalls :
        /\ mj[c].pc = "done" /\ mj[c].room = "!open" /\ mj[c].ver = {"6"}
        /\ mj[c].response = "IncompatibleRoomVersion"
        /\ mj[d].pc = "lock" /\ mj[d].room = "!open"
        /\ roomid_mutex_state["!open"] = NoCall

\* C26: create_invite_route writes an invite membership only for a room that does not
\* exist locally, whatever the room id of the path and the room id inside the event
C26_NoInviteForExistingRoom ==
    \A r \in invite_membership : ~RoomExists(r)

\* C27: acl_check refuses a server exactly when the room has a server ACL event whose
\* content parses and denies the server; an invite request, whose first check after the
\* configuration is acl_check(sender, path room), is answered Forbidden in exactly that case
C27_ForbiddenIffParsedAclDenies ==
    /\ \A s \in Servers, r \in InviteRooms :
          acl_check(s, r) = ~(/\ RoomServerAcl(r).present
                              /\ RoomServerAcl(r).parses
                              /\ s \in RoomServerAcl(r).deny)
    /\ (inv.response # "none" /\ allow_federation)
          => ((inv.response = "Forbidden")
                 <=> (/\ RoomServerAcl(inv.room_id).present
                      /\ RoomServerAcl(inv.room_id).parses
                      /\ inv.sender \in RoomServerAcl(inv.room_id).deny))

\* the server named by an ACL event that does not parse was let through, after the same
\* server had been refused for the room whose ACL event parses
C27_Witness ==
    /\ inv.sender = "evil.example" /\ inv.room_id = "!badacl" /\ inv.response = "Ok"
    /\ ~acl_check("evil.example", "!acl")
    /\ "!badacl" \notin invite_membership

\* the outbound queue entries of request c
SentBy(c) == {i \in DOMAIN outbound : outbound[i].call = c}

C25_ForwardedOnceIffAdmitted ==
    \A c \in SjCalls :
        sj[c].pc = "done"
            => IF sj[c].admitted
               THEN /\ Cardinality(SentBy(c)) = 1
                    /\ \A i \in SentBy(c) :
                          /\ outbound[i].pdu = sj[c].event
                          /\ outbound[i].servers = room_servers(sj[c].room) \ {LocalServer}
               ELSE SentBy(c) = {}

\* C28: while federation is switched off, send_request and every route answer with the
\* configuration error at once: no request is past its entry, nothing was resolved or sent,
\* no mutex entry exists, nothing was admitted, and the caches, ledgers and stores are as
\* they were
C28_DisabledDoesNothing ==
    ~allow_federation =>
        /\ \A c \in Calls : pc[c] \in {"idle", "done"} /\ response[c] \in {"none", "bad_config"}
        /\ \A c \in SendCalls :
              /\ sr_pc[c] \in {"idle", "done"}
              /\ sr_response[c] \in {"none", "Err: Federation is disabled."}
              /\ sr_actual[c] = NoDestination
              /\ ~write_destination_to_cache[c]
        /\ \A c \in MjCalls :
              mj[c].pc \in {"idle", "done"} /\ mj[c].response \in {"none", "bad_config"}
                  /\ ~mj[c].built
        /\ \A c \in SjCalls :
              sj[c].pc \in {"idle", "done"} /\ sj[c].response \in {"none", "bad_config"}
                  /\ ~sj[c].admitted
        /\ inv.response \in {"none", "bad_config"}
        /\ ro.response \in {"none", "bad_config"} /\ ~ro.read
        /\ DOMAIN roomid_mutex_federation = {} /\ DOMAIN roomid_mutex_state = {}
        /\ DOMAIN actual_destination_cache = {} /\ sr_verified = {}
        /\ transaction_ids = {} /\ cross_signing_keys = {}
        /\ \A c \in Calls : resolved_map[c] = EmptyMap /\ pdu_seen[c] = <<>>
        /\ invite_membership = {} /\ outbound = <<>>
        /\ \A r \in Rooms : room_states[r] = <<{"$create"}>>

\* with federation off a transaction, a make_join, a send_join, an invite, a send_request
\* and a state request were each answered with the configuration error
C28_Witness ==
    /\ ~allow_federation
    /\ \E c \in TxnCalls : req[c].kind = "txn" /\ response[c] = "bad_config"
    /\ mj[1].response = "bad_config" /\ mj[1].room = "!open"
    /\ sj[1].response = "bad_config" /\ sj[1].room = "!open"
    /\ inv.response = "bad_config" /\ inv.room_id = NoRoom
    /\ sr_response[1] = "Err: Federation is disabled."
    /\ ro.route = "get_room_state" /\ ro.response = "bad_config"

\* C29: a send_request call runs the transport at most once, and once when it got as far
\* as a request for a destination; what it returns follows from the one answer: status 200
\* with a decodable body is Ok, status 200 with an undecodable body and another status with
\* an undecodable error body are BadServerResponse, another status with a decodable error
\* body is a FederationError that names the destination, a transport failure is the error
\* of the transport; after the answer the call is over
C29_OneExecutionMapped ==
    /\ [](\A c \in SendCalls :
            /\ sr_executed[c] <= 1
            /\ sr_pc[c] = "sent" => sr_executed[c] = 1
            /\ sr_pc[c] \in {"idle", "resolve"} => sr_executed[c] = 0
            /\ sr_pc[c] = "done" =>
                  (sr_executed[c] = 0
                      <=> sr_response[c] \in {"Err: Federation is disabled.",
                                              "Err: Invalid destination"}))
    /\ [][\A c \in SendCalls :
            (sr_pc[c] = "sent" /\ sr_pc'[c] # "sent") =>
                /\ sr_pc'[c] = "done" /\ sr_executed'[c] = 1
                /\ \E outcome \in TransportOutcomes : SrRespondWith(c, outcome)
                /\ \A outcome \in TransportOutcomes :
                      SrRespondWith(c, outcome) =>
                      /\ outcome = "200_decodable" => sr_response'[c] = "Ok"
                      /\ outcome = "200_undecodable" =>
                            sr_response'[c] = "Err: Server returned bad 200 response."
                      /\ outcome = "error_undecodable" =>
                            sr_response'[c] = "Err: Server returned bad error response."
                      /\ outcome = "error_decodable" =>
                            sr_response'[c] = "Err: FederationError from " \o sr_destination[c]
                      /\ outcome = "network_error" => sr_response'[c] = "Err: network"]_vars

\* one call ended with the FederationError of its peer and the other with a bad error
\* response, each after one execution
C29_Witness ==
    \E c, d \in SendCalls :
        /\ sr_pc[c] = "done" /\ sr_destination[c] = "evil.example"
        /\ sr_response[c] = "Err: FederationError from evil.example" /\ sr_executed[c] = 1
        /\ sr_pc[d] = "done" /\ sr_response[d] = "Err: Server returned bad error response."
        /\ sr_executed[d] = 1

\* the requests of the running fetch_join_signing_keys call, by kind
SentOfKind(kind) == SelectSeq(fj.sent, LAMBDA r : r.kind = kind)

C34_NoAdmissionSinceHashRead ==
    \A c \in SjCalls : sj[c].admitted => sj[c].before = sj[c].hash

\* C36: a join event that admission accepted is handed to the outbound queue in the end,
\* whatever the state lookup and the auth chain computation after the admission return
C36_AdmittedIsForwarded ==
    \A c \in SjCalls : sj[c].admitted ~> (SentBy(c) # {})

\* C33: over all transactions a device gets the event of a (sender, message id) at most once
C33_DeliveredAtMostOnce ==
    \A k \in D2DKeys, d \in Devices : to_device[k, d] <= 1

\* C35: a fetch_signing_keys call is refused as backing off only after a call for the same
\* server has failed
C35_BackoffOnlyAfterOwnFailure ==
    \A k \in KeyCalls :
        fk_response[k] = "Err: still backing off"
            => \E j \in KeyCalls \ {k} :
                  /\ fk_response[j] = "Err: failed to find public key"
                  /\ fk_origin[j] = fk_origin[k]

\* C39: get_auth_chain_inner ends for every store, cycles and self-references included:
\* an event is taken from `todo` once, the starting event at most twice, `todo` never holds
\* an event twice, and a call that began returns, with the set the walk of the whole gives
C39_InnerTerminates ==
    /\ [](/\ \A e \in ChainEvents :
                walk.popped[e] <= IF e = walk.event_id THEN 2 ELSE 1
          /\ Len(walk.todo) <= Cardinality(ChainEvents)
          /\ walk.pc = "done" =>
                LET whole == get_auth_chain_inner(walk.room_id, walk.event_id, pdus, walk.order)
                IN  walk.ok = whole.ok /\ walk.found = whole.found)
    /\ (walk.pc = "loop") ~> (walk.pc = "done")

\* the walk of an event that lists itself and a second event that lists the first is over:
\* the starting event was taken from `todo` twice
C39_Witness ==
    /\ walk.pc = "done" /\ walk.ok /\ walk.event_id = "$a"
    /\ "$a" \in DOMAIN pdus /\ "$a" \in pdus["$a"].auth_events
    /\ "$b" \in DOMAIN pdus /\ "$a" \in pdus["$b"].auth_events /\ "$b" \in pdus["$a"].auth_events
    /\ walk.popped["$a"] = 2 /\ walk.popped["$b"] = 1

\* C31: get_missing_events ends for every store of prev_events, with events that list
\* themselves or each other: it returns at most `limit` events, the queue holds the latest
\* events and the prev_events of at most `limit` events, an iteration is made only while
\* events are queued and fewer than `limit` are collected, and a request that entered the
\* loop is answered
C31_MissingEventsBounded ==
    /\ [](/\ Len(gm.events) <= gm.limit
          /\ gm.i <= Len(gm.queued_events)
          /\ Len(gm.queued_events) <= 2 + 2 * gm.limit
          /\ (gm.pc = "done" /\ gm.response = "Ok") =>
                (Len(gm.events) = gm.limit \/ gm.i = Len(gm.queued_events)))
    /\ [][(gm.pc = "loop" /\ (Len(gm.events) >= gm.limit \/ gm.i >= Len(gm.queued_events)))
             => /\ gm'.pc = "done" /\ gm'.response = "Ok"
                /\ gm'.events = gm.events /\ gm'.queued_events = gm.queued_events]_vars
    /\ (gm.pc = "loop") ~> (gm.pc = "done")

\* an event that lists itself was returned `limit` times and the request ended with events
\* still queued
C31_Witness ==
    /\ gm.pc = "done" /\ gm.response = "Ok" /\ gm.limit = MaxLimit
    /\ gm.events = [n \in 1 .. MaxLimit |-> "$a"]
    /\ gm.i < Len(gm.queued_events)

\* C37: a server that the ACL of a room denies gets no events of that room from the
\* routes event, missing events, event auth, state and state ids
C37_DeniedServerGetsNothing ==
    rd.served # NoRoom => acl_check(rd.sender, rd.served)

\* C38: when the cache pass is over, every server that signed one of the events the pass
\* looked at with a key id that is not among its stored keys is in `servers`
C38_UnresolvedComplete ==
    cp.pc = "done" =>
        \A origin \in KeyServers :
            (\E n \in 1 .. Len(cp.pdus) :
                /\ ~cp.pdus[n].backing_off
                /\ origin \in DOMAIN cp.pdus[n].signatures
                /\ ~contains_all_ids(cp.pdus[n].signatures[origin], cp.store[origin]))
            => origin \in cp.servers

\* C32: every entry of the auth chain cache holds the events reachable over auth_events
\* from the events of its key in the store as it is now
C32_CacheMatchesStore ==
    \A key \in DOMAIN auth_chain_cache :
        {get_eventid_from_short(sid) : sid \in auth_chain_cache[key]}
            = Reachable(pdus, {get_eventid_from_short(key[i]) : i \in 1 .. Len(key)})

\* the state mutexes and the federation mutexes a holder id holds, and the tasks that wait
\* for the admin room's mutex
StateLocksOf(holder) ==
    {room \in DOMAIN roomid_mutex_state : roomid_mutex_state[room] = holder}

FederationLocksOf(holder) ==
    {room \in DOMAIN roomid_mutex_federation : roomid_mutex_federation[room] = holder}

AdminWaiting == {t \in AdminTasks : ad.pc[t] = "lock"}

\* C40: a task or request that waits for a room mutex holds no room mutex and not the
\* write guard of the registry; nobody holds two; the holder of a mutex is not waiting; and
\* the handler has finished its command when it reaches for the admin room's mutex
C40_NoLockHeldWhileWaiting ==
    /\ \A t \in AdminWaiting :
          /\ StateLocksOf(TaskHolder(t)) = {}
          /\ ad.guard # TaskHolder(t)
    /\ \A c \in MjCalls : mj[c].pc = "lock" => StateLocksOf(c) = {}
    /\ \A t \in AdminTasks : Cardinality(StateLocksOf(TaskHolder(t))) <= 1
    /\ \A c \in MjCalls : Cardinality(StateLocksOf(c)) <= 1
    /\ \A t \in AdminTasks : StateLocksOf(TaskHolder(t)) # {} => ad.pc[t] = "held"
    /\ \A c \in MjCalls : StateLocksOf(c) # {} => mj[c].pc = "build"
    /\ \A c \in TxnCalls :
          /\ pc[c] = "lock" => FederationLocksOf(c) = {}
          /\ Cardinality(FederationLocksOf(c)) <= 1
          /\ FederationLocksOf(c) # {} => pc[c] = "admit"
    /\ ad.pc["handler"] \in {"entry", "clone", "lock", "held"} => ad.command # "running"

\* the handler waits for the admin room's mutex with its command finished, while
\* make_user_admin holds the mutex and create_admin_room is at the registry
C40_Witness ==
    /\ ad.pc["handler"] = "lock" /\ ad.command = "finished"
    /\ roomid_mutex_state[AdminRoom] = TaskHolder("make_user_admin")
    /\ ad.guard = TaskHolder("create_admin_room")

====
